---- MODULE Spec2Model ----
(***************************************************************************)
(* The RoboDK client link (users/robodk/robolink.py): connection manager,  *)
(* handshake, status protocol and command dispatcher of class Robolink,    *)
(* and the Item methods that go through them.                              *)
(*                                                                         *)
(* One client thread runs the methods step by step (pc, stack); each step  *)
(* is one socket call or one local block of the method.  The application   *)
(* at the other end of the socket is the environment: which ports accept   *)
(* a TCP connect, what it replies to the handshake, and which status code, *)
(* message and results it returns for a command are chosen freely; it      *)
(* answers every request of an established session completely (results,    *)
(* status code, and the message line after codes 2 and 3).                 *)
(*                                                                         *)
(* The inbound stream inb is a sequence of bytes; what the client writes   *)
(* is logged per socket call (a line, a 32-bit int, an item pointer).      *)
(***************************************************************************)
EXTENDS Integers, Sequences, FiniteSets, TLC

VARIABLES
    RL,         \* the Robolink object: IP, PORT_START, PORT_END, PORT, TIMEOUT,
                \* SAFE_MODE, AUTO_UPDATE, COM (the socket) and COM's timeout
    session,    \* lifecycle of the connection (Disconnected, Connecting, ...)
    fr,         \* locals of Connect: connected, i, port, and the range iterator
    params,     \* arguments of _set_connection_params
    pc,         \* position of the client thread
    stack,      \* return positions of the methods being run
    call,       \* the public method the caller invoked last
    arg,        \* its arguments and locals
    ret,        \* return value of the method that returned last
    status,     \* local of _check_status
    name,       \* local of Item.Name
    inb,        \* bytes the socket holds for the client to read
    srvIn,      \* what the application has received and not yet answered
    srv,        \* the application's side of the connection
    livePorts,  \* ports on which the application accepts a connection
    sent,       \* socket writes of the current public call, in order
    h,          \* history of the current call: scan passes, spawns, ports tried,
                \* lines and status codes read, and what the application sent
    outcome,    \* how the last public call ended
    stdout,     \* the last line the current call printed
    heap,       \* two Robolink objects: the attributes of the class and of each
                \* instance
    thr,        \* two callers of one Robolink object: their positions, the
                \* socket they share
    io          \* one run of a method of the wire codec: its argument, the
                \* bytes it wrote, the stream it reads, its locals, its result

vars == <<RL, session, fr, params, pc, stack, call, arg, ret, status, name, inb, srvIn, srv,
          livePorts, sent, h, outcome, stdout, heap, thr, io>>
\* the variables of the one object with its one caller
link == <<RL, session, fr, params, pc, stack, call, arg, ret, status, name, inb, srvIn, srv,
          livePorts, sent, h, outcome, stdout>>

----------------------------------------------------------------------------
(* Bounds of the model *)

\* PORT_END ranges up to PORT_START + MaxExtraPorts
MaxExtraPorts == 1
\* server messages and item names have at most MaxMsgLen characters
MaxMsgLen == 1
\* status codes -NegStatus .. MaxStatus are sent by the application
MaxStatus == 11
NegStatus == 2
\* item pointers 0 .. MaxItem
MaxItem == 1
\* the calls the two callers of a shared object make in all
MaxCalls == 3
\* the longest array of doubles the codec is run on
MaxArray == 3
\* the longest stream _rec_line is run on
MaxStream == 4
\* the longest text given to RunCode, RunMessage and RunCodeCustom
MaxCode == 3
\* the longest lists given to setPoses, setPosesAbs and setJoints
MaxList == 2
\* the longest colour
MaxColor == 5
\* Joints is called with at most MaxRobots robots
MaxRobots == 2
\* a robot has at most MaxJoints joints
MaxJoints == 2
\* the most names or handles of one item list
MaxNames == 3
\* the most queries made one after the other on one session
MaxQueries == 2
\* the most Item objects alive at once
MaxHandles == 2

(* Program constants *)

DEFAULT_PORT == 20500
DEFAULT_TIMEOUT == 10
CONNECT_TIMEOUT == 1
WAITMOVE_TIMEOUT == 300
USER_TIMEOUT == 3600
INSTRUCTION_CALL_PROGRAM == 0
INSTRUCTION_COMMENT == 3
ITEM_TYPE_PROGRAM == 8
CR == 13
BUFFER_SIZE == 512
LF == 10

APPLICATION_DIR == "C:/RoboDK/bin/RoboDK.exe"

\* 'READY' as bytes
READY == <<82, 69, 65, 68, 89>>

Chars == {65, 66}
Hosts == {"localhost", "192.168.0.5"}

RECURSIVE SeqsUpTo(_, _)
SeqsUpTo(S, n) ==
    IF n = 0 THEN {<<>>}
    ELSE LET shorter == SeqsUpTo(S, n - 1)
         IN  shorter \cup {Append(s, c) : s \in shorter, c \in S}

\* texts the application may send as a message or an item name
Msgs == SeqsUpTo(Chars, MaxMsgLen)
\* replies the application may give to the handshake
HandshakeReplies == {READY, <<66, 85, 83, 89>>, <<>>}
\* status codes the application may send
StatusCodes == (0 - NegStatus)..MaxStatus \cup {256, 2147483647, 0 - 2147483647 - 1}
ItemIds == 0..MaxItem
\* joint values of the robots: axis k stands at JointValue(k)
JointValue(k) == IF k % 2 = 1 THEN 0 - k ELSE 3 * k
\* the joint arrays the application may send: one per number of axes
JointArrays == {[k \in 1..n |-> JointValue(k)] : n \in 0..MaxJoints}

----------------------------------------------------------------------------
(* Wire codec *)

U32Bytes(n) ==
    <<(n \div 16777216) % 256, (n \div 65536) % 256, (n \div 256) % 256, n % 256>>

\* struct.pack('>i', num): 4 bytes, big-endian, two's complement
pack_i(num) ==
    IF num >= 0 THEN U32Bytes(num)
    ELSE LET m == U32Bytes(0 - (num + 1)) IN [k \in 1..4 |-> 255 - m[k]]

\* struct.unpack('>i', buffer)
unpack_i(buffer) ==
    LET val(b) == b[1] * 16777216 + b[2] * 65536 + b[3] * 256 + b[4]
    IN  IF buffer[1] < 128 THEN val(buffer)
        ELSE 0 - val([k \in 1..4 |-> 255 - buffer[k]]) - 1

\* bytes(string + '\n')
line_bytes(string) == Append(string, LF)

\* the stream holds a whole line
HasLine(s) == \E k \in 1..Len(s) : s[k] = LF

\* bytes.decode('utf-8') of one byte: only an ASCII byte decodes
decodes(byte) == byte < 128
\* the stream holds every byte _rec_line is going to read
_rec_line_ready(s) == \E k \in 1..Len(s) : s[k] = LF \/ ~decodes(s[k])

\* _rec_line: recv(1) and decode, until the character is LF; a byte that does
\* not decode raises
RECURSIVE _rec_line_loop(_, _)
_rec_line_loop(string, s) ==
    IF ~decodes(Head(s)) THEN [string |-> string, rest |-> Tail(s), raises |-> TRUE]
    ELSE IF Head(s) = LF THEN [string |-> string, rest |-> Tail(s), raises |-> FALSE]
    ELSE _rec_line_loop(Append(string, Head(s)), Tail(s))

_rec_line(s) == _rec_line_loop(<<>>, s)

\* _rec_int: recv(4), unpack
_rec_int(s) == [num |-> unpack_i(SubSeq(s, 1, 4)), rest |-> SubSeq(s, 5, Len(s))]

RECURSIVE Pow2(_)
Pow2(k) == IF k = 0 THEN 1 ELSE 2 * Pow2(k - 1)

\* struct.pack('>Q', item): 8 bytes, big-endian, unsigned (pointers below 2^31)
pack_Q(item) == <<0, 0, 0, 0>> \o U32Bytes(item)

\* struct.unpack('>Q', buffer) of such a pointer
unpack_Q(buffer) ==
    buffer[5] * 16777216 + buffer[6] * 65536 + buffer[7] * 256 + buffer[8]

\* struct.pack('>d', x) of an integer-valued double |x| < 2^28: the sign bit,
\* the 11 bits of the biased exponent, the 52 bits of the fraction
pack_d(x) ==
    IF x = 0 THEN <<0, 0, 0, 0, 0, 0, 0, 0>>
    ELSE LET a == IF x < 0 THEN 0 - x ELSE x
             e == CHOOSE k \in 0..27 : Pow2(k) <= a /\ a < Pow2(k + 1)
             E == 1023 + e
             M == (a - Pow2(e)) * Pow2(28 - e)
         IN  <<(IF x < 0 THEN 128 ELSE 0) + E \div 16,
               (E % 16) * 16 + M \div 16777216,
               (M \div 65536) % 256, (M \div 256) % 256, M % 256, 0, 0, 0>>

\* struct.unpack('>d', buffer) of such a double
unpack_d(buffer) ==
    LET E == (buffer[1] % 128) * 16 + buffer[2] \div 16
        M == (buffer[2] % 16) * 16777216 + buffer[3] * 65536 + buffer[4] * 256
             + buffer[5]
        a == Pow2(E - 1023) + M \div Pow2(28 - (E - 1023))
    IN  IF E = 0 THEN 0 ELSE IF buffer[1] >= 128 THEN 0 - a ELSE a

\* _rec_item: recv(8) is the pointer, recv(4) the item type
_rec_item(s) ==
    [item |-> unpack_Q(SubSeq(s, 1, 8)), type |-> unpack_i(SubSeq(s, 9, 12)),
     rest |-> SubSeq(s, 13, Len(s))]

\* the stream holds the count of an array and that many doubles
_rec_array_ready(s) ==
    /\ Len(s) >= 4
    /\ _rec_int(s).num > 0 => Len(s) >= 4 + 8 * _rec_int(s).num

\* mutant: an array of no values is returned as the empty array
_rec_array_empty(s) ==
    LET r == _rec_int(s)
        nvalues == r.num
    IN  [values |-> [k \in 1..nvalues |->
                        unpack_d(SubSeq(r.rest, 8 * (k - 1) + 1, 8 * k))],
         rest |-> SubSeq(r.rest, 8 * nvalues + 1, Len(r.rest))]

\* _rec_array: the count, then recv(8*nvalues) unpacked, or [0]
_rec_array(s) ==
    LET r == _rec_int(s)
        nvalues == r.num
    IN  IF nvalues > 0
        THEN [values |-> [k \in 1..nvalues |->
                             unpack_d(SubSeq(r.rest, 8 * (k - 1) + 1, 8 * k))],
              rest |-> SubSeq(r.rest, 8 * nvalues + 1, Len(r.rest))]
        ELSE [values |-> <<0>>, rest |-> r.rest]

\* str() of a session flag
str(n) == CASE n = 0 -> "0" [] n = 1 -> "1" [] OTHER -> "?"

\* the values a caller passes as a target or as joints: an Item, a list
\* of floats, or a Mat (a matrix given by its rows)
ItemT(item) == [type |-> "Item", item |-> item, values |-> <<>>, rows |-> <<>>]
List(values) == [type |-> "list", item |-> 0, values |-> values, rows |-> <<>>]
Mat(rows) == [type |-> "Mat", item |-> 0, values |-> <<>>, rows |-> rows]
None == [type |-> "None", item |-> 0, values |-> <<>>, rows |-> <<>>]
\* an int, and a float given in quarters: PyFloat(q) is q/4
PyInt(n) == [type |-> "int", item |-> n, values |-> <<>>, rows |-> <<>>]
PyFloat(q) == [type |-> "float", item |-> q, values |-> <<>>, rows |-> <<>>]
\* mutant: a float is cut to its integer part
round_truncates(q) == IF q >= 0 THEN q \div 4 ELSE 0 - ((0 - q) \div 4)
\* round(x) of the float q/4: the nearest integer, the even one of two
round(q) ==
    LET f == q \div 4
        r == q % 4
    IN  IF r < 2 THEN f
        ELSE IF r > 2 THEN f + 1
        ELSE IF f % 2 = 0 THEN f ELSE f + 1
\* the number _send_int packs: a float is rounded, a list gives its first value
_send_int_num(num) ==
    CASE num.type = "float" -> round(num.item)
      [] num.type = "int" -> num.item
      [] OTHER -> num.values[1]
\* Mat.size(): the number of rows and of columns
size(m) == IF m.rows = <<>> THEN <<0, 0>> ELSE <<Len(m.rows), Len(m.rows[1])>>
\* Mat.tr(): the transpose
tr(m) == Mat([j \in 1..size(m)[2] |-> [i \in 1..size(m)[1] |-> m.rows[i][j]]])

\* what each send method writes on the socket
_send_line(string) == [k |-> "line", s |-> string, n |-> 0]
_send_int(num) == [k |-> "int", s |-> "", n |-> num]
_send_item(item) == [k |-> "item", s |-> "", n |-> item]
\* mutant: a matrix is written row by row
_send_matrix_by_rows(mat) ==
    <<_send_int(size(mat)[1]), _send_int(size(mat)[2])>>
    \o [k \in 1..(size(mat)[1] * size(mat)[2]) |->
          [k |-> "double", s |-> "",
           n |-> mat.rows[((k - 1) \div size(mat)[2]) + 1][((k - 1) % size(mat)[2]) + 1]]]

\* _send_matrix: the two sizes, then each column in one write
_send_matrix(mat) ==
    <<_send_int(size(mat)[1]), _send_int(size(mat)[2])>>
    \o [k \in 1..(size(mat)[1] * size(mat)[2]) |->
          [k |-> "double", s |-> "",
           n |-> mat.rows[((k - 1) % size(mat)[1]) + 1][((k - 1) \div size(mat)[1]) + 1]]]

\* mutant: _rec_matrix asks for all it misses
to_receive_all(recvsize, matbytes) == recvsize - Len(matbytes)
\* _rec_matrix: to_receive = min(recvsize - len(matbytes), BUFFER_SIZE)
to_receive(recvsize, matbytes) ==
    IF recvsize - Len(matbytes) < BUFFER_SIZE THEN recvsize - Len(matbytes)
    ELSE BUFFER_SIZE

\* _rec_matrix: struct.unpack of the doubles, set column by column in a
\* Mat(size1, size2)
unpack_matrix(size1, size2, matbytes) ==
    Mat([i \in 1..size1 |-> [j \in 1..size2 |->
           unpack_d(SubSeq(matbytes, 8 * ((j - 1) * size1 + i - 1) + 1,
                           8 * ((j - 1) * size1 + i)))]])

\* Mat.isHomogeneous(): a 4x4 matrix whose last row is [0,0,0,1]
isHomogeneous(pose) == size(pose) = <<4, 4>> /\ pose.rows[4] = <<0, 0, 0, 1>>
MSG_NOT_HOMOGENEOUS == "Warning: pose is not homogeneous!"

\* mutant: a pose that is not homogeneous is not sent
_send_pose_refusing(pose) ==
    [printed |-> IF isHomogeneous(pose) THEN <<>> ELSE <<MSG_NOT_HOMOGENEOUS, "pose">>,
     writes |-> IF isHomogeneous(pose)
                THEN [k \in 1..16 |->
                        [k |-> "double", s |-> "",
                         n |-> pose.rows[((k - 1) % 4) + 1][((k - 1) \div 4) + 1]]]
                ELSE <<>>]

\* _send_pose: the warning and the pose are printed when the pose is not
\* homogeneous; the 16 entries are written column by column, in one write
_send_pose(pose) ==
    [printed |-> IF isHomogeneous(pose) THEN <<>> ELSE <<MSG_NOT_HOMOGENEOUS, "pose">>,
     writes |-> [k \in 1..16 |->
                   [k |-> "double", s |-> "",
                    n |-> pose.rows[((k - 1) % 4) + 1][((k - 1) \div 4) + 1]]]]

\* _rec_pose: recv(16*8), unpacked into a Mat(4,4) column by column
_rec_pose(s) ==
    [pose |-> unpack_matrix(4, 4, SubSeq(s, 1, 128)), rest |-> SubSeq(s, 129, Len(s))]

\* mutant: the doubles of an array are written last to first
_send_array_reversed(values) ==
    LET v == values.values
        nval == Len(v)
    IN  <<_send_int(nval)>>
        \o [i \in 1..nval |-> [k |-> "double", s |-> "", n |-> v[nval + 1 - i]]]

\* _send_array: a Mat of joints is sent as the first row of its transpose;
\* the count, then (if it is not 0) one buffer with every double
_send_array(values) ==
    LET v == IF values.type # "list" THEN tr(values).rows[1] ELSE values.values
        nval == Len(v)
    IN  <<_send_int(nval)>>
        \o (IF nval > 0
            THEN [i \in 1..nval |-> [k |-> "double", s |-> "", n |-> v[i]]]
            ELSE <<>>)

\* mutant: an item is written with a type after its pointer
wire_item_typed(token) ==
    CASE token.k = "int" -> pack_i(token.n)
      [] token.k = "item" -> pack_Q(token.n) \o pack_i(0)
      [] token.k = "double" -> pack_d(token.n)

\* the bytes a binary write puts on the socket
wire(token) ==
    CASE token.k = "int" -> pack_i(token.n)
      [] token.k = "item" -> pack_Q(token.n)
      [] token.k = "double" -> pack_d(token.n)

\* the bytes a sequence of writes puts on the socket
RECURSIVE Bytes(_)
Bytes(tokens) ==
    IF tokens = <<>> THEN <<>>
    ELSE (IF Head(tokens).k = "line" THEN line_bytes(Head(tokens).s)
          ELSE wire(Head(tokens))) \o Bytes(Tail(tokens))

----------------------------------------------------------------------------
(* Robolink *)

_is_connected(com) == IF com = "None" THEN 0 ELSE 1

NoOutcome == [kind |-> "none", exc |-> "", msg |-> "", text |-> <<>>, val |-> 0]
Returned(val, text) ==
    [kind |-> "return", exc |-> "", msg |-> "", text |-> text, val |-> val]

\* nothing printed
Nothing == [kind |-> "", msg |-> "", text |-> <<>>]
\* the locals of a method not yet run
NoFrame == [connected |-> 0, i |-> 0, port |-> 0, next |-> 0, eofs |-> 0]

NoHistory ==
    [scans |-> 0, spawns |-> 0, tried |-> <<>>, hsLines |-> 0, statusReads |-> 0,
     csLines |-> 0, csBytes |-> 0, cmdLines |-> 0,
     port0 |-> 0, found |-> 0, hsReply |-> <<>>, replies |-> <<>>, srvName |-> <<>>,
     reads |-> <<>>, lastReply |-> [st |-> 0, msg |-> <<>>],
     srvItem |-> [item |-> 0, type |-> 0], srvJoints |-> <<>>, srvList |-> <<>>,
     prev |-> <<>>]

\* a read of kind k, made after the Len(sent) writes of the call so far
Read(k) == [k |-> k, at |-> Len(sent)]

\* arguments and locals of the public methods
NoArgs ==
    [item |-> 0, robot_item_list |-> <<>>, joints_list |-> <<>>,
     message |-> "", popup |-> FALSE, itemtype |-> 0,
     picked |-> [item |-> 0, type |-> 0], busy |-> 0,
     target |-> List(<<>>), target2 |-> List(<<>>), blocking |-> FALSE,
     code |-> <<>>, flag |-> 0, items |-> <<>>, poses |-> <<>>, joints |-> <<>>,
     tocolor |-> None, fromcolor |-> None, tolerance |-> None,
     filter |-> None, list_names |-> TRUE, count |-> 0, retlist |-> <<>>,
     pose |-> None, wait_for_finished |-> FALSE, speed |-> <<>>, value |-> 0]

\* a method returns to its caller
Return(v) ==
    /\ pc' = Head(stack)
    /\ stack' = Tail(stack)
    /\ ret' = v

\* an exception leaves every method being run; the caller of the public
\* method catches it (a failed constructor leaves no object)
Raise(exc, msg, text) ==
    /\ pc' = IF call = "__init__" THEN "dead" ELSE "idle"
    /\ stack' = <<>>
    /\ outcome' = [kind |-> "raise", exc |-> exc, msg |-> msg, text |-> text, val |-> 0]

\* the public method ends normally
Done(val, text) ==
    /\ pc' = "idle"
    /\ stack' = <<>>
    /\ outcome' = Returned(val, text)

\* the objects of the class, and the callers of one object
Objs == {1, 2}
Callers == {1, 2}
\* the class attributes of Robolink
ClassAttrs ==
    [SAFE_MODE |-> 1, AUTO_UPDATE |-> 0, TIMEOUT |-> DEFAULT_TIMEOUT,
     COM |-> [state |-> "None", timeout |-> 0], IP |-> "localhost",
     PORT_START |-> DEFAULT_PORT, PORT_END |-> DEFAULT_PORT, PORT |-> -1]
\* the codec has not run
NoIo ==
    [op |-> "none", pc |-> "done", value |-> List(<<>>), out |-> <<>>, inb |-> <<>>,
     buf |-> <<>>, result |-> List(<<>>), ended |-> "", printed |-> <<>>,
     recvs |-> 0, maxreq |-> 0, to_receive |-> 0, size |-> <<0, 0>>]
\* no object is constructed yet
NoHeap == [cls |-> ClassAttrs, self |-> [o \in Objs |-> <<>>], actor |-> 0, items |-> <<>>]
\* no caller has called yet
NoCallers ==
    [pc |-> [t \in Callers |-> "idle"], inb |-> <<>>, srvIn |-> <<>>, calls |-> 0,
     cmds |-> 0, statuses |-> 0, got |-> [t \in Callers |-> <<>>], serial |-> FALSE]

Init ==
    /\ \E ip \in Hosts, e \in (DEFAULT_PORT - 1)..(DEFAULT_PORT + MaxExtraPorts) :
          RL = [IP |-> ip, PORT_START |-> DEFAULT_PORT, PORT_END |-> e, PORT |-> -1,
                TIMEOUT |-> DEFAULT_TIMEOUT, SAFE_MODE |-> 1, AUTO_UPDATE |-> 0,
                COM |-> "None", COM_timeout |-> 0]
    /\ livePorts \in SUBSET (DEFAULT_PORT..(DEFAULT_PORT + MaxExtraPorts))
    /\ session = "Disconnected"
    /\ fr = NoFrame
    /\ params = [safe_mode |-> 1, auto_update |-> 0, timeout |-> 0]
    /\ pc = "Connect"
    /\ stack = <<"__init___return">>
    /\ call = "__init__"
    /\ arg = NoArgs
    /\ ret = 0
    /\ status = 0
    /\ name = <<>>
    /\ inb = <<>>
    /\ srvIn = <<>>
    /\ srv = "none"
    /\ sent = <<>>
    /\ h = NoHistory
    /\ outcome = NoOutcome
    /\ stdout = Nothing
    /\ heap = NoHeap
    /\ io = NoIo
    /\ thr = NoCallers

----------------------------------------------------------------------------
(* Robolink.Connect *)

\* connected = 0; for i in range(2):
Connect ==
    /\ pc = "Connect"
    /\ fr' = [connected |-> 0, i |-> 0, port |-> 0, next |-> RL.PORT_START]
    /\ session' = "Connecting"
    /\ h' = [h EXCEPT !.scans = 0, !.spawns = 0, !.tried = <<>>, !.hsLines = 0,
                      !.port0 = RL.PORT, !.found = 0]
    /\ pc' = "Connect_pass"
    /\ UNCHANGED <<io, heap, thr, RL, params, stack, call, arg, ret, status, name, inb, srvIn, srv,
                   livePorts, sent, outcome, stdout>>

\* the head of the outer loop: the next pass, or the end of the loop
Connect_pass ==
    /\ pc = "Connect_pass"
    /\ IF fr.i < 2
       THEN /\ fr' = [fr EXCEPT !.next = RL.PORT_START]
            /\ h' = [h EXCEPT !.scans = @ + 1, !.tried = <<>>]
            /\ pc' = "Connect_scan"
       ELSE /\ pc' = "Connect_end"
            /\ UNCHANGED <<fr, h>>
    /\ UNCHANGED <<io, heap, thr, RL, session, params, stack, call, arg, ret, status, name, inb,
                   srvIn, srv, livePorts, sent, outcome, stdout>>

\* mutant: no break after a connect that succeeded
Connect_scan_no_break ==
    /\ pc = "Connect_scan"
    /\ IF fr.next <= RL.PORT_END
       THEN /\ h' = [h EXCEPT !.tried = Append(@, fr.next),
                             !.found = IF fr.next \in livePorts THEN fr.next ELSE @]
            /\ IF fr.next \in livePorts
               THEN /\ RL' = [RL EXCEPT !.COM = "open", !.COM_timeout = RL.TIMEOUT]
                    /\ fr' = [fr EXCEPT !.port = fr.next, !.next = @ + 1,
                                        !.connected = _is_connected("open")]
                    /\ srv' = "accepted"
               ELSE /\ RL' = [RL EXCEPT !.COM = "unconnected",
                                        !.COM_timeout = CONNECT_TIMEOUT]
                    /\ fr' = [fr EXCEPT !.port = fr.next, !.next = @ + 1]
                    /\ srv' = "none"
            /\ pc' = "Connect_scan"
            /\ inb' = <<>>
            /\ srvIn' = <<>>
       ELSE /\ pc' = "Connect_after_scan"
            /\ UNCHANGED <<RL, fr, h, srv, inb, srvIn>>
    /\ UNCHANGED <<io, heap, thr, session, params, stack, call, arg, ret, status, name, livePorts,
                   sent, outcome, stdout>>

\* one iteration of: for port in range(self.PORT_START, self.PORT_END+1)
Connect_scan ==
    /\ pc = "Connect_scan"
    /\ IF fr.next <= RL.PORT_END
       THEN /\ h' = [h EXCEPT !.tried = Append(@, fr.next),
                             !.found = IF fr.next \in livePorts THEN fr.next ELSE @]
            /\ IF fr.next \in livePorts
               THEN \* connect succeeds; connected = self._is_connected(); break
                    /\ RL' = [RL EXCEPT !.COM = "open", !.COM_timeout = RL.TIMEOUT]
                    /\ fr' = [fr EXCEPT !.port = fr.next,
                                        !.connected = _is_connected("open")]
                    /\ srv' = "accepted"
                    /\ pc' = "Connect_after_scan"
               ELSE \* connect raises; the new socket stays in self.COM
                    /\ RL' = [RL EXCEPT !.COM = "unconnected",
                                        !.COM_timeout = CONNECT_TIMEOUT]
                    /\ fr' = [fr EXCEPT !.port = fr.next, !.next = @ + 1]
                    /\ srv' = "none"
                    /\ pc' = "Connect_scan"
            /\ inb' = <<>>
            /\ srvIn' = <<>>
       ELSE /\ pc' = "Connect_after_scan"
            /\ UNCHANGED <<RL, fr, h, srv, inb, srvIn>>
    /\ UNCHANGED <<io, heap, thr, session, params, stack, call, arg, ret, status, name, livePorts,
                   sent, outcome, stdout>>

\* mutant: the application is started whatever the host
Connect_after_scan_any_host ==
    /\ pc = "Connect_after_scan"
    /\ IF fr.connected > 0
       THEN /\ RL' = [RL EXCEPT !.PORT = fr.port]
            /\ pc' = "Connect_end"
       ELSE /\ pc' = "Connect_spawn"
            /\ UNCHANGED RL
    /\ UNCHANGED <<io, heap, thr, session, fr, params, stack, call, arg, ret, status, name, inb,
                   srvIn, srv, livePorts, sent, h, outcome, stdout>>

\* after the inner loop: record the port, give up, or start the application
Connect_after_scan ==
    /\ pc = "Connect_after_scan"
    /\ IF fr.connected > 0
       THEN /\ RL' = [RL EXCEPT !.PORT = fr.port]
            /\ pc' = "Connect_end"
       ELSE /\ pc' = IF RL.IP # "localhost" THEN "Connect_end" ELSE "Connect_spawn"
            /\ UNCHANGED RL
    /\ UNCHANGED <<io, heap, thr, session, fr, params, stack, call, arg, ret, status, name, inb,
                   srvIn, srv, livePorts, sent, h, outcome, stdout>>

\* subprocess.Popen(self.APPLICATION_DIR); time.sleep(5)
Connect_spawn ==
    /\ pc = "Connect_spawn"
    /\ stdout' = [kind |-> "print", msg |-> "Starting " \o APPLICATION_DIR,
                  text |-> <<>>]
    /\ \/ \* the application starts; it may or may not come to listen on a port
          /\ h' = [h EXCEPT !.spawns = @ + 1]
          /\ \E up \in SUBSET (RL.PORT_START..RL.PORT_END) :
                /\ Cardinality(up) <= 1
                /\ livePorts' = livePorts \cup up
          /\ fr' = [fr EXCEPT !.i = @ + 1]
          /\ pc' = "Connect_pass"
          /\ UNCHANGED <<session, stack, outcome>>
       \/ \* Popen raises
          /\ Raise("Exception",
                   "Application path is not correct or could not start: "
                       \o APPLICATION_DIR, <<>>)
          /\ session' = "Failed"
          /\ UNCHANGED <<h, livePorts, fr>>
    /\ UNCHANGED <<io, heap, thr, RL, params, call, arg, ret, status, name, inb, srvIn, srv, sent>>

\* mutant: the handshake is run with the flags the object holds
Connect_end_keeps_flags ==
    /\ pc = "Connect_end"
    /\ IF fr.connected > 0
       THEN /\ params' = [safe_mode |-> RL.SAFE_MODE, auto_update |-> RL.AUTO_UPDATE,
                          timeout |-> 0]
            /\ pc' = "_set_connection_params"
            /\ stack' = <<"Connect_return">> \o stack
            /\ session' = "Handshaking"
            /\ UNCHANGED ret
       ELSE /\ Return(fr.connected)
            /\ session' = "Failed"
            /\ UNCHANGED params
    /\ UNCHANGED <<io, heap, thr, RL, fr, call, arg, status, name, inb, srvIn, srv, livePorts,
                   sent, h, outcome, stdout>>

\* if connected > 0 and not self._set_connection_params(): connected = 0
\* return connected
Connect_end ==
    /\ pc = "Connect_end"
    /\ IF fr.connected > 0
       THEN /\ params' = [safe_mode |-> 1, auto_update |-> 0, timeout |-> 0]
            /\ pc' = "_set_connection_params"
            /\ stack' = <<"Connect_return">> \o stack
            /\ session' = "Handshaking"
            /\ UNCHANGED ret
       ELSE /\ Return(fr.connected)
            /\ session' = "Failed"
            /\ UNCHANGED params
    /\ UNCHANGED <<io, heap, thr, RL, fr, call, arg, status, name, inb, srvIn, srv, livePorts,
                   sent, h, outcome, stdout>>

\* _set_connection_params has returned into Connect
Connect_return ==
    /\ pc = "Connect_return"
    /\ LET connected == IF ret = 0 THEN 0 ELSE fr.connected
       IN  /\ fr' = [fr EXCEPT !.connected = connected]
           /\ Return(connected)
           /\ session' = IF connected > 0 THEN "Ready" ELSE "Failed"
    /\ UNCHANGED <<io, heap, thr, RL, params, call, arg, status, name, inb, srvIn, srv, livePorts,
                   sent, h, outcome, stdout>>

----------------------------------------------------------------------------
(* Socket writes and blocking reads *)

\* self.COM.send of each of the tokens, then go on at next; a socket that
\* never connected refuses the first write
send(tokens, next, nextstack) ==
    IF RL.COM = "open"
    THEN /\ sent' = sent \o tokens
         /\ srvIn' = IF srv \in {"refused", "gone"} THEN srvIn ELSE srvIn \o tokens
         /\ pc' = next
         /\ stack' = nextstack
         /\ UNCHANGED outcome
    ELSE /\ Raise("OSError", "socket is not connected", <<>>)
         /\ UNCHANGED <<sent, srvIn>>

\* the positions at which the client waits for bytes, and whether they are there
Waiting ==
    \/ pc = "_set_connection_params_rec" /\ ~HasLine(inb)
    \/ pc = "Name_rec_line" /\ ~HasLine(inb)
    \/ pc = "_check_status" /\ Len(inb) < 4
    \/ pc = "Joints_rec_array" /\ ~_rec_array_ready(inb)
    \/ pc = "ItemUserPick_rec_item" /\ Len(inb) < 12
    \/ pc = "Busy_rec_int" /\ Len(inb) < 4

\* the socket timeout expires in a blocking recv: the application will not
\* answer on this connection
Timeout ==
    /\ Waiting
    /\ srv = "refused"
    /\ Raise("timeout", "timed out", <<>>)
    /\ session' = IF session = "Handshaking" THEN "Failed" ELSE session
    /\ UNCHANGED <<io, heap, thr, RL, fr, params, call, arg, ret, status, name, inb, srvIn, srv,
                   livePorts, sent, h, stdout>>

\* recv returns b'' once the application has gone: struct.unpack in _rec_int
\* raises (_rec_line keeps calling recv(1) and compares '' with LF for ever)
Eof ==
    /\ \/ pc = "_check_status" /\ Len(inb) < 4
       \/ pc = "Joints_rec_array" /\ Len(inb) < 4
       \/ pc = "Busy_rec_int" /\ Len(inb) < 4
       \/ pc = "ItemUserPick_rec_item" /\ Len(inb) < 8
    /\ srv = "gone"
    /\ Raise("struct.error", "unpack requires a buffer of 4 bytes", <<>>)
    /\ UNCHANGED <<io, heap, thr, RL, session, fr, params, call, arg, ret, status, name, inb, srvIn,
                   srv, livePorts, sent, h, stdout>>

----------------------------------------------------------------------------
(* Robolink._set_connection_params *)

\* set the three parameters, send 'CMD_START' and the flag line
_set_connection_params ==
    /\ pc = "_set_connection_params"
    /\ RL' = [RL EXCEPT !.SAFE_MODE = params.safe_mode,
                        !.AUTO_UPDATE = params.auto_update,
                        !.TIMEOUT = IF params.timeout # 0 THEN params.timeout ELSE @]
    /\ send(<<_send_line("CMD_START"),
              _send_line(str(params.safe_mode) \o " " \o str(params.auto_update))>>,
            "_set_connection_params_rec", stack)
    /\ UNCHANGED <<io, heap, thr, session, fr, params, call, arg, ret, status, name, inb, srv,
                   livePorts, h, stdout>>

\* mutant: any reply line is taken as the ready token
_set_connection_params_rec_any ==
    /\ pc = "_set_connection_params_rec"
    /\ HasLine(inb)
    /\ inb' = _rec_line(inb).rest
    /\ Return(1)
    /\ h' = [h EXCEPT !.hsLines = @ + 1, !.reads = Append(@, Read("handshake"))]
    /\ UNCHANGED <<io, heap, thr, RL, session, fr, params, call, arg, status, name, srvIn, srv,
                   livePorts, sent, outcome, stdout>>

\* response = self._rec_line(); return 1 if it is 'READY', else 0
_set_connection_params_rec ==
    /\ pc = "_set_connection_params_rec"
    /\ HasLine(inb)
    /\ LET r == _rec_line(inb)
       IN  /\ inb' = r.rest
           /\ Return(IF r.string = READY THEN 1 ELSE 0)
    /\ h' = [h EXCEPT !.hsLines = @ + 1, !.reads = Append(@, Read("handshake"))]
    /\ UNCHANGED <<io, heap, thr, RL, session, fr, params, call, arg, status, name, srvIn, srv,
                   livePorts, sent, outcome, stdout>>

----------------------------------------------------------------------------
(* Robolink._check_connection *)

_check_connection ==
    /\ pc = "_check_connection"
    /\ IF _is_connected(RL.COM) = 0
       THEN /\ pc' = "Connect"
            /\ stack' = <<"_check_connection_return">> \o stack
            /\ UNCHANGED ret
       ELSE Return(0)
    /\ UNCHANGED <<io, heap, thr, RL, session, fr, params, call, arg, status, name, inb, srvIn, srv,
                   livePorts, sent, h, outcome, stdout>>

\* Connect has returned into _check_connection
_check_connection_return ==
    /\ pc = "_check_connection_return"
    /\ IF ret < 1
       THEN /\ Raise("Exception", "Unable to connect", <<>>)
            /\ UNCHANGED ret
       ELSE /\ Return(0)
            /\ UNCHANGED outcome
    /\ UNCHANGED <<io, heap, thr, RL, session, fr, params, call, arg, status, name, inb, srvIn, srv,
                   livePorts, sent, h, stdout>>

----------------------------------------------------------------------------
(* Robolink._check_status *)

MSG_INVALID_ITEM ==
    "Invalid item provided: The item identifier provided is not valid or it does not exist."
MSG_LICENSE == "Invalid license. Contact us at: www.robodk.com"

\* the socket holds every byte _check_status is going to read
_check_status_ready(s) ==
    /\ Len(s) >= 4
    /\ _rec_int(s).num \in {2, 3} => HasLine(_rec_int(s).rest)

\* what _check_status does on the inbound stream s: the status it reads, the
\* lines it reads after it, what it prints, and how it ends
_check_status(s) ==
    LET r == _rec_int(s)
        st == r.num
        l == _rec_line(r.rest)
        raise(msg, text, printed, lines, rest) ==
            [status |-> st, raises |-> TRUE, msg |-> msg, text |-> text,
             printed |-> printed, lines |-> lines, rest |-> rest, value |-> 0]
        return(value, printed, lines, rest) ==
            [status |-> st, raises |-> FALSE, msg |-> "", text |-> <<>>,
             printed |-> printed, lines |-> lines, rest |-> rest, value |-> value]
        say(msg) == [kind |-> "print", msg |-> msg, text |-> <<>>]
    IN  IF st > 0 /\ st < 10
        THEN CASE st = 1 -> raise(MSG_INVALID_ITEM, <<>>, say(MSG_INVALID_ITEM), 0, r.rest)
               [] st = 2 -> return(0, [kind |-> "print", msg |-> "WARNING: ",
                                       text |-> l.string], 1, l.rest)
               [] st = 3 -> raise("", l.string, Nothing, 1, l.rest)
               [] st = 9 -> raise(MSG_LICENSE, <<>>, say(MSG_LICENSE), 0, r.rest)
               [] OTHER  -> raise("Unknown error", <<>>, say("Unknown error"), 0, r.rest)
        ELSE IF st = 0
        THEN return(st, Nothing, 0, r.rest)
        ELSE raise("Problems running function", <<>>, Nothing, 0, r.rest)

\* the step of the client that runs _check_status with outcome c
check_status_with(c) ==
    /\ pc = "_check_status"
    /\ _check_status_ready(inb)
    /\ status' = c.status
    /\ inb' = c.rest
    /\ stdout' = IF c.printed.kind = "" THEN stdout ELSE c.printed
    /\ h' = [h EXCEPT !.statusReads = @ + 1, !.csLines = c.lines,
                      !.csBytes = Len(inb) - Len(c.rest),
                      !.reads = Append(@, Read("status")),
                      !.lastReply = Head(h.replies), !.replies = Tail(@)]
    /\ IF c.raises
       THEN /\ Raise("Exception", c.msg, c.text)
            /\ UNCHANGED ret
       ELSE /\ Return(c.value)
            /\ UNCHANGED outcome
    /\ UNCHANGED <<io, heap, thr, RL, session, fr, params, call, arg, name, srvIn, srv, livePorts,
                   sent>>

\* mutant: no branch for status 3, which ends as the other unknown codes do
_check_status_no_error_branch ==
    LET c == _check_status(inb)
    IN  check_status_with(
            IF c.status = 3
            THEN [c EXCEPT !.msg = "Unknown error", !.text = <<>>, !.lines = 0,
                           !.rest = _rec_int(inb).rest]
            ELSE c)

\* mutant: the warning branch does not return and falls through to the raise
_check_status_warning_raises ==
    LET c == _check_status(inb)
    IN  check_status_with(
            IF c.status = 2
            THEN [c EXCEPT !.raises = TRUE, !.text = _rec_line(_rec_int(inb).rest).string]
            ELSE c)

\* mutant: no branch for status 9
_check_status_no_license_branch ==
    LET c == _check_status(inb)
    IN  check_status_with(
            IF c.status = 9
            THEN [c EXCEPT !.msg = "Unknown error",
                           !.printed = [kind |-> "print", msg |-> "Unknown error",
                                        text |-> <<>>]]
            ELSE c)

\* mutant: every status that is not in (0, 10) is taken as success
_check_status_negative_ok ==
    LET c == _check_status(inb)
    IN  check_status_with(
            IF c.status < 0
            THEN [c EXCEPT !.raises = FALSE, !.msg = "", !.value = c.status]
            ELSE c)

_check_status_step == check_status_with(_check_status(inb))

----------------------------------------------------------------------------
(* Public methods *)

Methods == {"Connect", "Name", "ShowRoboDK", "WaitMove"}
\* the commands of an established session
SessionMethods ==
    {"Name", "ShowRoboDK", "WaitMove", "Busy", "Joints", "ShowMessage",
     "ItemUserPick", "MoveJ", "MoveC", "Delete"}

\* a pose whose sixteen entries differ from their transposed ones
Pose == <<<<1, 2, 3, 4>>, <<5, 6, 7, 8>>, <<9, 10, 11, 12>>, <<0, 0, 0, 1>>>>
\* the three forms of a target, and joints given as a column matrix
Targets == {ItemT(1), List(<<10, 20>>), Mat(Pose)}
MoveTargets == Targets \cup {Mat(<<<<10>>, <<20>>>>)}

\* the colours a caller may give: lists of 2 to MaxColor channels, all 0 but
\* one, and a value that is not a list
Colors ==
    {List([k \in 1..n |-> IF k = p THEN v ELSE 0]) :
        n \in 2..MaxColor, p \in 1..MaxColor, v \in {-2, -1, 1, 2}}
    \cup {PyInt(1)}

\* the arguments a caller may give to method m
Args(m) ==
    CASE m \in {"Name", "WaitMove", "Busy", "Delete"} ->
            {[NoArgs EXCEPT !.item = i] : i \in ItemIds}
      [] m = "Joints" ->
            {[NoArgs EXCEPT !.robot_item_list = [k \in 1..n |-> k % (MaxItem + 1)]] :
                n \in 0..MaxRobots}
      [] m = "ShowMessage" ->
            {[NoArgs EXCEPT !.message = "hello", !.popup = p] : p \in BOOLEAN}
      [] m = "ItemUserPick" ->
            {[NoArgs EXCEPT !.message = "Pick one item", !.itemtype = t] :
                t \in {-1, 2}}
      [] m = "MoveJ" ->
            {[NoArgs EXCEPT !.item = 1, !.target = t, !.blocking = b] :
                t \in MoveTargets, b \in BOOLEAN}
      [] m = "MoveC" ->
            {[NoArgs EXCEPT !.item = 1, !.target = t1, !.target2 = t2,
                            !.blocking = b] :
                t1 \in Targets, t2 \in Targets, b \in BOOLEAN}
      [] m \in {"RunCode", "RunMessage"} ->
            {[NoArgs EXCEPT !.code = c, !.flag = f] :
                c \in SeqsUpTo({65, CR, LF}, MaxCode), f \in {0, 1}}
      [] m = "RunCodeCustom" ->
            {[NoArgs EXCEPT !.item = 1, !.code = c, !.flag = f] :
                c \in SeqsUpTo({65, CR, LF}, MaxCode),
                f \in {INSTRUCTION_CALL_PROGRAM, INSTRUCTION_COMMENT}}
      [] m \in {"setPoses", "setPosesAbs"} ->
            {[NoArgs EXCEPT !.items = [k \in 1..n |-> k % (MaxItem + 1)],
                            !.poses = [k \in 1..np |-> IF k = bad THEN Mat(SubSeq(Pose, 1, 3) \o <<<<0, 0, 0, 0>>>>)
                                                      ELSE Mat(Pose)]] :
                n \in 0..MaxList, np \in 0..MaxList, bad \in 0..1}
      [] m = "setJoints" ->
            {[NoArgs EXCEPT !.robot_item_list = [k \in 1..n |-> k % (MaxItem + 1)],
                            !.joints = [k \in 1..nj |-> List(<<10 * k, 20>>)]] :
                n \in 0..MaxList, nj \in 0..MaxList}
      [] m = "setColor" ->
            {[NoArgs EXCEPT !.item = 1, !.tocolor = c] : c \in Colors}
      [] m = "Recolor" ->
            {[NoArgs EXCEPT !.item = 1, !.tocolor = c, !.fromcolor = fc,
                            !.tolerance = t] :
                c \in {List(<<0, 1, 0>>), List(<<0, 2>>), List(<<-2, 0, 0, 1>>)},
                fc \in {None, List(<<>>), List(<<1, 0, 0>>), List(<<1>>)},
                t \in {None, PyInt(0), PyInt(1), List(<<1>>)}}
      [] m = "setSpeed" ->
            {[NoArgs EXCEPT !.item = 1, !.speed = <<sl, sj, al, aj>>] :
                sl \in {-1, 50}, sj \in {-1, 20}, al \in {-1, 300}, aj \in {-1, 100}}
      [] m \in {"setAcceleration", "setSpeedJoints", "setAccelerationJoints"} ->
            {[NoArgs EXCEPT !.item = 1, !.value = v] : v \in {0, 20, 300}}
      [] m = "RunProgram" ->
            {[NoArgs EXCEPT !.code = <<65>>, !.wait_for_finished = w] : w \in BOOLEAN}
      [] m = "ItemList" ->
            {[NoArgs EXCEPT !.filter = f, !.list_names = l] :
                f \in {None, PyInt(2)}, l \in BOOLEAN}
      [] OTHER -> {NoArgs}

\* mutant: a move that does not block starts without itemrobot.WaitMove()
CallOf_unwaited(M) ==
    /\ pc = "idle"
    /\ \E m \in M : \E a \in Args(m) :
          /\ call' = m
          /\ arg' = a
          /\ CASE m = "Connect" -> pc' = "Connect" /\ stack' = <<"Connect_done">>
               [] m \in {"MoveJ", "MoveC"} ->
                     /\ pc' = "_check_connection"
                     /\ stack' = (IF a.blocking THEN <<"WaitMove_send">> ELSE <<>>)
                                  \o <<IF m = "MoveJ" THEN "_moveX_send" ELSE "MoveC_send">>
               [] OTHER -> pc' = "_check_connection" /\ stack' = <<m \o "_send">>
    /\ sent' = <<>>
    /\ h' = NoHistory
    /\ outcome' = NoOutcome
    /\ stdout' = Nothing
    /\ fr' = NoFrame
    /\ ret' = 0
    /\ status' = 0
    /\ name' = <<>>
    /\ UNCHANGED <<io, heap, thr, RL, session, params, inb, srvIn, srv, livePorts>>

\* the caller invokes a public method, one of M, of the object; a move
\* starts with itemrobot.WaitMove()
CallOf(M) ==
    /\ pc = "idle"
    /\ \E m \in M : \E a \in Args(m) :
          /\ call' = m
          /\ arg' = a
          /\ CASE m = "Connect" -> pc' = "Connect" /\ stack' = <<"Connect_done">>
               [] m = "MoveJ" ->
                     /\ pc' = "_check_connection"
                     /\ stack' = <<"WaitMove_send", "_moveX_send">>
               [] m = "MoveC" ->
                     /\ pc' = "_check_connection"
                     /\ stack' = <<"WaitMove_send", "MoveC_send">>
               [] OTHER -> pc' = "_check_connection" /\ stack' = <<m \o "_send">>
    /\ sent' = <<>>
    /\ h' = NoHistory
    /\ outcome' = NoOutcome
    /\ stdout' = Nothing
    /\ fr' = NoFrame
    /\ ret' = 0
    /\ status' = 0
    /\ name' = <<>>
    /\ UNCHANGED <<io, heap, thr, RL, session, params, inb, srvIn, srv, livePorts>>

Call == CallOf(Methods)
Session_Call == CallOf(SessionMethods)

\* Robolink.__init__ after Connect
__init___return ==
    /\ pc = "__init___return"
    /\ Done(0, <<>>)
    /\ UNCHANGED <<io, heap, thr, RL, session, fr, params, call, arg, ret, status, name, inb, srvIn,
                   srv, livePorts, sent, h, stdout>>

\* Connect called by the user returns its value
Connect_done ==
    /\ pc = "Connect_done"
    /\ Done(ret, <<>>)
    /\ UNCHANGED <<io, heap, thr, RL, session, fr, params, call, arg, ret, status, name, inb, srvIn,
                   srv, livePorts, sent, h, stdout>>

\* Robolink.ShowRoboDK: 'RAISE', then the status
ShowRoboDK_send ==
    /\ pc = "ShowRoboDK_send"
    /\ send(<<_send_line("RAISE")>>, "_check_status", <<"ShowRoboDK_return">>)
    /\ h' = [h EXCEPT !.cmdLines = IF RL.COM = "open" THEN @ + 1 ELSE @]
    /\ UNCHANGED <<io, heap, thr, RL, session, fr, params, call, arg, ret, status, name, inb, srv,
                   livePorts, stdout>>

ShowRoboDK_return ==
    /\ pc = "ShowRoboDK_return"
    /\ Done(0, <<>>)
    /\ UNCHANGED <<io, heap, thr, RL, session, fr, params, call, arg, ret, status, name, inb, srvIn,
                   srv, livePorts, sent, h, stdout>>

\* Item.Name: 'G_Name', the item, then the name line and the status
Name_send ==
    /\ pc = "Name_send"
    /\ send(<<_send_line("G_Name"), _send_item(arg.item)>>, "Name_rec_line", <<>>)
    /\ h' = [h EXCEPT !.cmdLines = IF RL.COM = "open" THEN @ + 1 ELSE @]
    /\ UNCHANGED <<io, heap, thr, RL, session, fr, params, call, arg, ret, status, name, inb, srv,
                   livePorts, stdout>>

Name_rec_line ==
    /\ pc = "Name_rec_line"
    /\ HasLine(inb)
    /\ LET r == _rec_line(inb)
       IN  /\ name' = r.string
           /\ inb' = r.rest
    /\ pc' = "_check_status"
    /\ stack' = <<"Name_return">>
    /\ h' = [h EXCEPT !.reads = Append(@, Read("result"))]
    /\ UNCHANGED <<io, heap, thr, RL, session, fr, params, call, arg, ret, status, srvIn, srv,
                   livePorts, sent, outcome, stdout>>

Name_return ==
    /\ pc = "Name_return"
    /\ Done(0, name)
    /\ UNCHANGED <<io, heap, thr, RL, session, fr, params, call, arg, ret, status, name, inb, srvIn,
                   srv, livePorts, sent, h, stdout>>

\* Item.WaitMove: 'WaitMove', the item, the status
WaitMove_send ==
    /\ pc = "WaitMove_send"
    /\ send(<<_send_line("WaitMove"), _send_item(arg.item)>>, "_check_status",
            <<"WaitMove_wait">> \o stack)
    /\ h' = [h EXCEPT !.cmdLines = IF RL.COM = "open" THEN @ + 1 ELSE @]
    /\ UNCHANGED <<io, heap, thr, RL, session, fr, params, call, arg, ret, status, name, inb, srv,
                   livePorts, stdout>>

\* mutant: the item is made invalid as soon as 'Remove' is written
Delete_send_clears ==
    /\ pc = "Delete_send"
    /\ send(<<_send_line("Remove"), _send_item(arg.item)>>, "_check_status",
            <<"Delete_return">>)
    /\ arg' = [arg EXCEPT !.item = 0]
    /\ h' = [h EXCEPT !.cmdLines = IF RL.COM = "open" THEN @ + 1 ELSE @]
    /\ UNCHANGED <<io, heap, thr, RL, session, fr, params, call, ret, status, name, inb, srv,
                   livePorts, stdout>>

\* Item.Delete: 'Remove', the item, the status
Delete_send ==
    /\ pc = "Delete_send"
    /\ send(<<_send_line("Remove"), _send_item(arg.item)>>, "_check_status",
            <<"Delete_return">>)
    /\ h' = [h EXCEPT !.cmdLines = IF RL.COM = "open" THEN @ + 1 ELSE @]
    /\ UNCHANGED <<io, heap, thr, RL, session, fr, params, call, arg, ret, status, name, inb, srv,
                   livePorts, stdout>>

\* self.item = 0
Delete_return ==
    /\ pc = "Delete_return"
    /\ arg' = [arg EXCEPT !.item = 0]
    /\ Done(0, <<>>)
    /\ UNCHANGED <<io, heap, thr, RL, session, fr, params, call, ret, status, name, inb, srvIn,
                   srv, livePorts, sent, h, stdout>>

\* Item.Valid()
Valid(item) == item # 0

\* Item.Busy: 'IsBusy', the item; then the busy flag and the status
Busy_send ==
    /\ pc = "Busy_send"
    /\ send(<<_send_line("IsBusy"), _send_item(arg.item)>>, "Busy_rec_int", <<>>)
    /\ h' = [h EXCEPT !.cmdLines = IF RL.COM = "open" THEN @ + 1 ELSE @]
    /\ UNCHANGED <<io, heap, thr, RL, session, fr, params, call, arg, ret, status, name, inb, srv,
                   livePorts, stdout>>

Busy_rec_int ==
    /\ pc = "Busy_rec_int"
    /\ Len(inb) >= 4
    /\ LET r == _rec_int(inb)
       IN  /\ arg' = [arg EXCEPT !.busy = r.num]
           /\ inb' = r.rest
    /\ h' = [h EXCEPT !.reads = Append(@, Read("result"))]
    /\ pc' = "_check_status"
    /\ stack' = <<"Busy_return">>
    /\ UNCHANGED <<io, heap, thr, RL, session, fr, params, call, ret, status, name, srvIn, srv,
                   livePorts, sent, outcome, stdout>>

\* return busy
Busy_return ==
    /\ pc = "Busy_return"
    /\ Done(arg.busy, <<>>)
    /\ UNCHANGED <<io, heap, thr, RL, session, fr, params, call, arg, ret, status, name, inb, srvIn,
                   srv, livePorts, sent, h, stdout>>

\* mutant: the second status is read under the timeout of every command
WaitMove_wait_no_settimeout ==
    /\ pc = "WaitMove_wait"
    /\ pc' = "_check_status"
    /\ stack' = <<"WaitMove_return">> \o stack
    /\ UNCHANGED <<io, heap, thr, RL, session, fr, params, call, arg, ret, status, name, inb, srvIn,
                   srv, livePorts, sent, h, outcome, stdout>>

\* mutant: WaitMove returns after its first status
WaitMove_wait_skipped ==
    /\ pc = "WaitMove_wait"
    /\ RL' = [RL EXCEPT !.COM_timeout = WAITMOVE_TIMEOUT]
    /\ pc' = "WaitMove_return"
    /\ UNCHANGED <<io, heap, thr, session, fr, params, stack, call, arg, ret, status, name, inb,
                   srvIn, srv, livePorts, sent, h, outcome, stdout>>

\* self.link.COM.settimeout(timeout); self.link._check_status()
WaitMove_wait ==
    /\ pc = "WaitMove_wait"
    /\ RL' = [RL EXCEPT !.COM_timeout = WAITMOVE_TIMEOUT]
    /\ pc' = "_check_status"
    /\ stack' = <<"WaitMove_return">> \o stack
    /\ UNCHANGED <<io, heap, thr, session, fr, params, call, arg, ret, status, name, inb, srvIn, srv,
                   livePorts, sent, h, outcome, stdout>>

\* self.link.COM.settimeout(self.link.TIMEOUT); WaitMove returns, to the
\* caller or into the move that called it
WaitMove_return ==
    /\ pc = "WaitMove_return"
    /\ RL' = [RL EXCEPT !.COM_timeout = RL.TIMEOUT]
    /\ IF stack = <<>>
       THEN Done(0, <<>>) /\ UNCHANGED ret
       ELSE Return(0) /\ UNCHANGED outcome
    /\ UNCHANGED <<io, heap, thr, session, fr, params, call, arg, status, name, inb, srvIn, srv,
                   livePorts, sent, h, stdout>>

\* Robolink.ShowMessage: with a popup the status is read under a timeout of
\* one hour, which is set back after it
ShowMessage_send ==
    /\ pc = "ShowMessage_send"
    /\ IF arg.popup
       THEN /\ send(<<_send_line("ShowMessage"), _send_line(arg.message)>>,
                    "_check_status", <<"ShowMessage_settimeout">>)
            /\ RL' = [RL EXCEPT !.COM_timeout =
                                   IF RL.COM = "open" THEN USER_TIMEOUT ELSE @]
       ELSE /\ send(<<_send_line("ShowMessageStatus"), _send_line(arg.message)>>,
                    "_check_status", <<"ShowMessage_return">>)
            /\ UNCHANGED RL
    /\ h' = [h EXCEPT !.cmdLines = IF RL.COM = "open" THEN @ + 1 ELSE @]
    /\ UNCHANGED <<io, heap, thr, session, fr, params, call, arg, ret, status, name, inb, srv,
                   livePorts, stdout>>

\* self.COM.settimeout(self.TIMEOUT)
ShowMessage_settimeout ==
    /\ pc = "ShowMessage_settimeout"
    /\ RL' = [RL EXCEPT !.COM_timeout = RL.TIMEOUT]
    /\ pc' = "ShowMessage_return"
    /\ UNCHANGED <<io, heap, thr, session, fr, params, stack, call, arg, ret, status, name, inb,
                   srvIn, srv, livePorts, sent, h, outcome, stdout>>

ShowMessage_return ==
    /\ pc = "ShowMessage_return"
    /\ Done(0, <<>>)
    /\ UNCHANGED <<io, heap, thr, RL, session, fr, params, call, arg, ret, status, name, inb, srvIn,
                   srv, livePorts, sent, h, stdout>>

\* Robolink.ItemUserPick: 'PickItem', the message, the item type; the item is
\* read under a timeout of one hour
ItemUserPick_send ==
    /\ pc = "ItemUserPick_send"
    /\ send(<<_send_line("PickItem"), _send_line(arg.message),
              _send_int(arg.itemtype)>>, "ItemUserPick_rec_item", <<>>)
    /\ RL' = [RL EXCEPT !.COM_timeout = IF RL.COM = "open" THEN USER_TIMEOUT ELSE @]
    /\ h' = [h EXCEPT !.cmdLines = IF RL.COM = "open" THEN @ + 1 ELSE @]
    /\ UNCHANGED <<io, heap, thr, session, fr, params, call, arg, ret, status, name, inb, srv,
                   livePorts, stdout>>

\* item = self._rec_item(); self.COM.settimeout(self.TIMEOUT); the status
ItemUserPick_rec_item ==
    /\ pc = "ItemUserPick_rec_item"
    /\ Len(inb) >= 12
    /\ LET r == _rec_item(inb)
       IN  /\ arg' = [arg EXCEPT !.picked = [item |-> r.item, type |-> r.type]]
           /\ inb' = r.rest
    /\ h' = [h EXCEPT !.reads = Append(@, Read("result")),
                      !.csBytes = Len(inb) - Len(inb')]
    /\ RL' = [RL EXCEPT !.COM_timeout = RL.TIMEOUT]
    /\ pc' = "_check_status"
    /\ stack' = <<"ItemUserPick_return">>
    /\ UNCHANGED <<io, heap, thr, session, fr, params, call, ret, status, name, srvIn, srv,
                   livePorts, sent, outcome, stdout>>

\* return item
ItemUserPick_return ==
    /\ pc = "ItemUserPick_return"
    /\ Done(0, <<>>)
    /\ UNCHANGED <<io, heap, thr, RL, session, fr, params, call, arg, ret, status, name, inb, srvIn,
                   srv, livePorts, sent, h, stdout>>

\* mutant: a pose is sent row by row
TargetBlock_rows(target) ==
    IF target.type = "Item"
    THEN <<_send_int(3)>> \o _send_array(List(<<>>)) \o <<_send_item(target.item)>>
    ELSE IF target.type = "list" \/ size(target) # <<4, 4>>
    THEN <<_send_int(1)>> \o _send_array(target) \o <<_send_item(0)>>
    ELSE <<_send_int(2)>>
         \o _send_array(List(target.rows[1] \o target.rows[2] \o target.rows[3]
                             \o target.rows[4]))
         \o <<_send_item(0)>>

\* the writes _moveX and MoveC make for one target: the tag of its form,
\* an array and an item
TargetBlock(target) ==
    IF target.type = "Item"
    THEN <<_send_int(3)>> \o _send_array(List(<<>>)) \o <<_send_item(target.item)>>
    ELSE IF target.type = "list" \/ size(target) # <<4, 4>>
    THEN <<_send_int(1)>> \o _send_array(target) \o <<_send_item(0)>>
    ELSE LET mattr == tr(target)
         IN  <<_send_int(2)>>
             \o _send_array(List(mattr.rows[1] \o mattr.rows[2] \o mattr.rows[3]
                                 \o mattr.rows[4]))
             \o <<_send_item(0)>>

\* Item.MoveJ: Robolink._moveX with movetype 1, after itemrobot.WaitMove():
\* 'MoveX', the type of the move, the target, the robot; then the status
_moveX_send ==
    /\ pc = "_moveX_send"
    /\ send(<<_send_line("MoveX"), _send_int(1)>> \o TargetBlock(arg.target)
              \o <<_send_item(arg.item)>>, "_check_status", <<"_moveX_blocking">>)
    /\ h' = [h EXCEPT !.cmdLines = IF RL.COM = "open" THEN @ + 1 ELSE @]
    /\ UNCHANGED <<io, heap, thr, RL, session, fr, params, call, arg, ret, status, name, inb, srv,
                   livePorts, stdout>>

\* mutant: the move waits whether or not it is a blocking one
_moveX_blocking_always ==
    /\ pc = "_moveX_blocking"
    /\ pc' = "_check_connection"
    /\ stack' = <<"WaitMove_send", "_moveX_return">>
    /\ UNCHANGED <<io, heap, thr, RL, session, fr, params, call, arg, ret, status, name, inb, srvIn,
                   srv, livePorts, sent, h, outcome, stdout>>

\* if blocking: itemrobot.WaitMove()
_moveX_blocking ==
    /\ pc = "_moveX_blocking"
    /\ IF arg.blocking
       THEN /\ pc' = "_check_connection"
            /\ stack' = <<"WaitMove_send", "_moveX_return">>
       ELSE /\ pc' = "_moveX_return"
            /\ UNCHANGED stack
    /\ UNCHANGED <<io, heap, thr, RL, session, fr, params, call, arg, ret, status, name, inb, srvIn,
                   srv, livePorts, sent, h, outcome, stdout>>

_moveX_return ==
    /\ pc = "_moveX_return"
    /\ Done(0, <<>>)
    /\ UNCHANGED <<io, heap, thr, RL, session, fr, params, call, arg, ret, status, name, inb, srvIn,
                   srv, livePorts, sent, h, stdout>>

\* mutant: the second target is written before the first
MoveC_send_swapped ==
    /\ pc = "MoveC_send"
    /\ send(<<_send_line("MoveC"), _send_int(3)>> \o TargetBlock(arg.target2)
              \o TargetBlock(arg.target) \o <<_send_item(arg.item)>>,
            "_check_status", <<"MoveC_blocking">>)
    /\ h' = [h EXCEPT !.cmdLines = IF RL.COM = "open" THEN @ + 1 ELSE @]
    /\ UNCHANGED <<io, heap, thr, RL, session, fr, params, call, arg, ret, status, name, inb, srv,
                   livePorts, stdout>>

\* Item.MoveC: Robolink.MoveC after itemrobot.WaitMove(): 'MoveC', 3, the
\* first target, the second target, the robot; then the status
MoveC_send ==
    /\ pc = "MoveC_send"
    /\ send(<<_send_line("MoveC"), _send_int(3)>> \o TargetBlock(arg.target)
              \o TargetBlock(arg.target2) \o <<_send_item(arg.item)>>,
            "_check_status", <<"MoveC_blocking">>)
    /\ h' = [h EXCEPT !.cmdLines = IF RL.COM = "open" THEN @ + 1 ELSE @]
    /\ UNCHANGED <<io, heap, thr, RL, session, fr, params, call, arg, ret, status, name, inb, srv,
                   livePorts, stdout>>

\* if blocking: itemrobot.WaitMove()
MoveC_blocking ==
    /\ pc = "MoveC_blocking"
    /\ IF arg.blocking
       THEN /\ pc' = "_check_connection"
            /\ stack' = <<"WaitMove_send", "MoveC_return">>
       ELSE /\ pc' = "MoveC_return"
            /\ UNCHANGED stack
    /\ UNCHANGED <<io, heap, thr, RL, session, fr, params, call, arg, ret, status, name, inb, srvIn,
                   srv, livePorts, sent, h, outcome, stdout>>

MoveC_return ==
    /\ pc = "MoveC_return"
    /\ Done(0, <<>>)
    /\ UNCHANGED <<io, heap, thr, RL, session, fr, params, call, arg, ret, status, name, inb, srvIn,
                   srv, livePorts, sent, h, stdout>>

\* Robolink.Joints: 'G_ThetasList' and the number of robots
Joints_send ==
    /\ pc = "Joints_send"
    /\ send(<<_send_line("G_ThetasList"), _send_int(Len(arg.robot_item_list))>>,
            "Joints_loop", <<>>)
    /\ h' = [h EXCEPT !.cmdLines = IF RL.COM = "open" THEN @ + 1 ELSE @]
    /\ UNCHANGED <<io, heap, thr, RL, session, fr, params, call, arg, ret, status, name, inb, srv,
                   livePorts, stdout>>

\* mutant: every robot is written before the first array is read
Joints_loop_all_first ==
    /\ pc = "Joints_loop"
    /\ LET i == Len(arg.joints_list)
       IN  IF i < Len(arg.robot_item_list)
           THEN send(IF i = 0
                     THEN [k \in 1..Len(arg.robot_item_list) |->
                              _send_item(arg.robot_item_list[k])]
                     ELSE <<>>, "Joints_rec_array", stack)
           ELSE /\ pc' = "_check_status"
                /\ stack' = <<"Joints_return">>
                /\ UNCHANGED <<sent, srvIn, outcome>>
    /\ UNCHANGED <<io, heap, thr, RL, session, fr, params, call, arg, ret, status, name, inb, srv,
                   livePorts, h, stdout>>

\* for i in range(nrobs): send the robot; after the loop, the status
Joints_loop ==
    /\ pc = "Joints_loop"
    /\ LET i == Len(arg.joints_list)
       IN  IF i < Len(arg.robot_item_list)
           THEN send(<<_send_item(arg.robot_item_list[i + 1])>>, "Joints_rec_array",
                     stack)
           ELSE /\ pc' = "_check_status"
                /\ stack' = <<"Joints_return">>
                /\ UNCHANGED <<sent, srvIn, outcome>>
    /\ UNCHANGED <<io, heap, thr, RL, session, fr, params, call, arg, ret, status, name, inb, srv,
                   livePorts, h, stdout>>

\* joints_i = self._rec_array(); joints_list.append(joints_i)
Joints_rec_array ==
    /\ pc = "Joints_rec_array"
    /\ _rec_array_ready(inb)
    /\ LET r == _rec_array(inb)
       IN  /\ arg' = [arg EXCEPT !.joints_list = Append(@, r.values)]
           /\ inb' = r.rest
    /\ h' = [h EXCEPT !.reads = Append(@, Read("result")),
                      !.csBytes = Len(inb) - Len(inb')]
    /\ pc' = "Joints_loop"
    /\ UNCHANGED <<io, heap, thr, RL, session, fr, params, stack, call, ret, status, name, srvIn,
                   srv, livePorts, sent, outcome, stdout>>

\* return joints_list
Joints_return ==
    /\ pc = "Joints_return"
    /\ Done(0, <<>>)
    /\ UNCHANGED <<io, heap, thr, RL, session, fr, params, call, arg, ret, status, name, inb, srvIn,
                   srv, livePorts, sent, h, stdout>>

----------------------------------------------------------------------------
(* The application at the other end of the socket *)

\* the bytes of an array of doubles: the count, then the doubles
array_bytes(values) ==
    LET RECURSIVE doubles(_)
        doubles(k) == IF k = 0 THEN <<>> ELSE doubles(k - 1) \o pack_d(values[k])
    IN  pack_i(Len(values)) \o doubles(Len(values))

\* the bytes of a status: the code, and the message line after codes 2 and 3
status_bytes(st, msg) ==
    pack_i(st) \o (IF st \in {2, 3} THEN line_bytes(msg) ELSE <<>>)

MsgsFor(st) == IF st \in {2, 3} THEN Msgs ELSE {<<>>}

\* the bytes of an item: the pointer, then the type of the item
item_bytes(it) == pack_Q(it.item) \o pack_i(it.type)
\* the items the user may pick
Pickable ==
    {[item |-> 0, type |-> 0], [item |-> 1, type |-> 2],
     [item |-> 16909060, type |-> -3]}

\* the number of writes each request is made of: a move has, for each target,
\* a tag, a count, that many doubles and an item
BlockLen(at) == IF at + 1 <= Len(srvIn) THEN 3 + srvIn[at + 1].n ELSE 0
RequestLen ==
    [v \in {"RAISE"} |-> 1]
    @@ [v \in {"G_Name", "WaitMove", "IsBusy", "ShowMessage", "ShowMessageStatus",
                "Remove"}
           |-> 2]
    @@ [v \in {"PickItem"} |-> 3]
    @@ [v \in {"MoveX"} |-> 2 + BlockLen(3) + 1]
    @@ [v \in {"MoveC"} |-> 2 + BlockLen(3) + BlockLen(3 + BlockLen(3)) + 1]

\* the handshake is answered with one line, or not at all
Server_handshake ==
    /\ srv = "accepted"
    /\ Len(srvIn) = 2
    /\ srvIn[1] = _send_line("CMD_START")
    /\ srvIn[2].k = "line"
    /\ \/ \E reply \in HandshakeReplies :
             /\ inb' = inb \o line_bytes(reply)
             /\ srv' = IF reply = READY THEN "ready" ELSE "refused"
             /\ h' = [h EXCEPT !.hsReply = reply]
       \/ /\ srv' = "refused"
          /\ UNCHANGED <<inb, h>>
    /\ srvIn' = <<>>
    /\ UNCHANGED <<io, heap, thr, RL, session, fr, params, pc, stack, call, arg, ret, status, name,
                   livePorts, sent, outcome, stdout>>

\* a command of an established session is answered: its results, its status
Server_command ==
    /\ srv = "ready"
    /\ srvIn # <<>>
    /\ LET verb == srvIn[1].s
       IN  /\ verb \in DOMAIN RequestLen
           /\ Len(srvIn) = RequestLen[verb]
           /\ \E st \in StatusCodes :
              \E msg \in MsgsFor(st), nm \in Msgs, it \in Pickable, busy \in {0, 1} :
                 /\ verb # "G_Name" => nm = <<>>
                 /\ verb # "PickItem" => it = [item |-> 0, type |-> 0]
                 /\ verb # "IsBusy" => busy = 0
                 /\ inb' = inb \o (IF verb = "G_Name" THEN line_bytes(nm) ELSE <<>>)
                               \o (IF verb = "PickItem" THEN item_bytes(it) ELSE <<>>)
                               \o (IF verb = "IsBusy" THEN pack_i(busy) ELSE <<>>)
                               \o status_bytes(st, msg)
                 /\ srv' = IF verb = "WaitMove" /\ st \in {0, 2}
                           THEN "moving" ELSE "ready"
                 /\ h' = [h EXCEPT !.replies = Append(@, [st |-> st, msg |-> msg]),
                                   !.srvName = nm, !.srvItem = it]
    /\ srvIn' = <<>>
    /\ UNCHANGED <<io, heap, thr, RL, session, fr, params, pc, stack, call, arg, ret, status, name,
                   livePorts, sent, outcome, stdout>>

\* 'G_ThetasList': the joints of each robot as its pointer arrives, and the
\* status after the last one
Server_joints ==
    /\ srv = "ready"
    /\ Len(srvIn) >= 2
    /\ srvIn[1] = _send_line("G_ThetasList")
    /\ LET nrobs == srvIn[2].n
       IN  \E st \in StatusCodes : \E msg \in MsgsFor(st), joints \in JointArrays :
              \/ /\ nrobs = 0
                 /\ joints = <<>>
                 /\ inb' = inb \o status_bytes(st, msg)
                 /\ h' = [h EXCEPT !.replies = Append(@, [st |-> st, msg |-> msg])]
                 /\ srvIn' = <<>>
              \/ /\ nrobs = 1
                 /\ Len(srvIn) = 3
                 /\ inb' = inb \o array_bytes(joints) \o status_bytes(st, msg)
                 /\ h' = [h EXCEPT !.replies = Append(@, [st |-> st, msg |-> msg]),
                                   !.srvJoints = Append(@, joints)]
                 /\ srvIn' = <<>>
              \/ /\ nrobs > 1
                 /\ Len(srvIn) = 3
                 /\ st = 0
                 /\ inb' = inb \o array_bytes(joints)
                 /\ srvIn' = <<srvIn[1], _send_int(nrobs - 1)>>
                 /\ h' = [h EXCEPT !.srvJoints = Append(@, joints)]
    /\ UNCHANGED <<io, heap, thr, RL, session, fr, params, pc, stack, call, arg, ret, status, name,
                   srv, livePorts, sent, outcome, stdout>>

\* the robot has stopped: the second status of WaitMove
Server_move_done ==
    /\ srv = "moving"
    /\ \E st \in StatusCodes : \E msg \in MsgsFor(st) :
          /\ inb' = inb \o status_bytes(st, msg)
          /\ h' = [h EXCEPT !.replies = Append(@, [st |-> st, msg |-> msg])]
    /\ srv' = "ready"
    /\ UNCHANGED <<io, heap, thr, RL, session, fr, params, pc, stack, call, arg, ret, status, name,
                   srvIn, livePorts, sent, outcome, stdout>>

\* between two calls the application exits: its ports close, and so does its
\* end of the connection
App_exit ==
    /\ pc = "idle"
    /\ livePorts # {}
    /\ livePorts' = {}
    /\ srv' = IF srv = "none" THEN "none" ELSE "gone"
    /\ srvIn' = <<>>
    /\ UNCHANGED <<io, heap, thr, RL, session, fr, params, pc, stack, call, arg, ret, status, name,
                   inb, sent, h, outcome, stdout>>

----------------------------------------------------------------------------

Next ==
    \/ Connect
    \/ Connect_pass
    \/ Connect_scan
    \/ Connect_after_scan
    \/ Connect_spawn
    \/ Connect_end
    \/ Connect_return
    \/ Timeout
    \/ Eof
    \/ _set_connection_params
    \/ _set_connection_params_rec
    \/ _check_connection
    \/ _check_connection_return
    \/ _check_status_step
    \/ Call
    \/ __init___return
    \/ Connect_done
    \/ ShowRoboDK_send
    \/ ShowRoboDK_return
    \/ Name_send
    \/ Name_rec_line
    \/ Name_return
    \/ WaitMove_send
    \/ WaitMove_wait
    \/ WaitMove_return
    \/ Server_handshake
    \/ Server_command
    \/ Server_move_done
    \/ App_exit

Spec == Init /\ [][Next]_vars

\* an established session: the state in which Robolink() has returned after a
\* successful handshake on the first port
Session_Link ==
    /\ RL = [IP |-> "localhost", PORT_START |-> DEFAULT_PORT, PORT_END |-> DEFAULT_PORT,
             PORT |-> DEFAULT_PORT, TIMEOUT |-> DEFAULT_TIMEOUT, SAFE_MODE |-> 1,
             AUTO_UPDATE |-> 0, COM |-> "open", COM_timeout |-> DEFAULT_TIMEOUT]
    /\ livePorts = {DEFAULT_PORT}
    /\ session = "Ready"
    /\ fr = [connected |-> 1, i |-> 0, port |-> DEFAULT_PORT, next |-> DEFAULT_PORT,
             eofs |-> 0]
    /\ params = [safe_mode |-> 1, auto_update |-> 0, timeout |-> 0]
    /\ pc = "idle"
    /\ stack = <<>>
    /\ call = "__init__"
    /\ arg = NoArgs
    /\ ret = 1
    /\ status = 0
    /\ name = <<>>
    /\ inb = <<>>
    /\ srvIn = <<>>
    /\ srv = "ready"
    /\ sent = <<_send_line("CMD_START"), _send_line("1 0")>>
    /\ h = [NoHistory EXCEPT !.scans = 1, !.tried = <<DEFAULT_PORT>>, !.hsLines = 1,
                             !.port0 = -1, !.found = DEFAULT_PORT, !.hsReply = READY,
                             !.reads = <<[k |-> "handshake", at |-> 2]>>]
    /\ outcome = Returned(0, <<>>)
    /\ stdout = Nothing

Session_Init == Session_Link /\ heap = NoHeap /\ thr = NoCallers /\ io = NoIo

Session_Next ==
    \/ Session_Call
    \/ _check_connection
    \/ _check_status_step
    \/ Eof
    \/ ShowRoboDK_send
    \/ ShowRoboDK_return
    \/ Name_send
    \/ Name_rec_line
    \/ Name_return
    \/ WaitMove_send
    \/ WaitMove_wait
    \/ WaitMove_return
    \/ Busy_send
    \/ Busy_rec_int
    \/ Busy_return
    \/ Delete_send
    \/ Delete_return
    \/ ShowMessage_send
    \/ ShowMessage_settimeout
    \/ ShowMessage_return
    \/ ItemUserPick_send
    \/ ItemUserPick_rec_item
    \/ ItemUserPick_return
    \/ _moveX_send
    \/ _moveX_blocking
    \/ _moveX_return
    \/ MoveC_send
    \/ MoveC_blocking
    \/ MoveC_return
    \/ Joints_send
    \/ Joints_loop
    \/ Joints_rec_array
    \/ Joints_return
    \/ Server_command
    \/ Server_joints
    \/ Server_move_done
    \/ App_exit

SpecSession == Session_Init /\ [][Session_Next]_vars

----------------------------------------------------------------------------
(* Commands that check or rewrite their arguments *)

CheckedMethods ==
    {"RunCode", "RunMessage", "RunCodeCustom", "setPoses", "setPosesAbs", "setJoints",
     "setColor", "Recolor", "ItemList", "RunProgram",
     "setSpeed", "setAcceleration", "setSpeedJoints", "setAccelerationJoints"}

\* the caller makes one call on the new session; RunMessage, setPoses,
\* setPosesAbs, setJoints, RunProgram and the setters that call setSpeed have a
\* step before _check_connection
Checked_Call ==
    /\ pc = "idle"
    /\ call = "__init__"
    /\ \E m \in CheckedMethods : \E a \in Args(m) :
          /\ call' = m
          /\ arg' = a
          /\ IF m \in {"RunMessage", "setPoses", "setPosesAbs", "setJoints", "RunProgram",
                      "setAcceleration", "setSpeedJoints", "setAccelerationJoints"}
             THEN pc' = IF m = "setPosesAbs" THEN "setPoses" ELSE m
             ELSE pc' = "_check_connection"
          /\ stack' = <<(IF m = "setPosesAbs" THEN "setPoses" ELSE m) \o "_send">>
    /\ sent' = <<>>
    /\ h' = NoHistory
    /\ outcome' = NoOutcome
    /\ stdout' = Nothing
    /\ fr' = NoFrame
    /\ ret' = 0
    /\ status' = 0
    /\ name' = <<>>
    /\ UNCHANGED <<io, heap, thr, RL, session, params, inb, srvIn, srv, livePorts>>

\* str.replace(old, new): every occurrence of old, from the left, none
\* overlapping another
RECURSIVE replace(_, _, _)
replace(string, old, new) ==
    IF Len(string) < Len(old) THEN string
    ELSE IF SubSeq(string, 1, Len(old)) = old
    THEN new \o replace(SubSeq(string, Len(old) + 1, Len(string)), old, new)
    ELSE <<Head(string)>> \o replace(Tail(string), old, new)

\* '<<br>>'
BR == <<60, 60, 98, 114, 62, 62>>
\* mutant: only the CR-LF pairs are replaced
normalized_crlf_only(code) == replace(code, <<CR, LF>>, BR)
\* code.replace('\r\n','<<br>>').replace('\n','<<br>>')
normalized(code) == replace(replace(code, <<CR, LF>>, BR), <<LF>>, BR)

\* Robolink.RunCode: 'RunCode', the flag, the code on one line; then the
\* program status and the status
RunCode_send ==
    /\ pc = "RunCode_send"
    /\ send(<<_send_line("RunCode"), _send_int(arg.flag), _send_line(normalized(arg.code))>>,
            "RunCode_rec_int", <<>>)
    /\ UNCHANGED <<io, heap, thr, RL, session, fr, params, call, arg, ret, status, name, inb, srv,
                   livePorts, h, stdout>>

\* Item.RunCodeCustom: 'RunCode2', the item, the code on one line, the type
RunCodeCustom_send ==
    /\ pc = "RunCodeCustom_send"
    /\ send(<<_send_line("RunCode2"), _send_item(arg.item),
              _send_line(normalized(arg.code)), _send_int(arg.flag)>>,
            "RunCode_rec_int", <<>>)
    /\ UNCHANGED <<io, heap, thr, RL, session, fr, params, call, arg, ret, status, name, inb, srv,
                   livePorts, h, stdout>>

\* prog_status = self._rec_int(), of RunCode and of RunCodeCustom
RunCode_rec_int ==
    /\ pc = "RunCode_rec_int"
    /\ Len(inb) >= 4
    /\ LET r == _rec_int(inb)
       IN  /\ arg' = [arg EXCEPT !.busy = r.num]
           /\ inb' = r.rest
    /\ h' = [h EXCEPT !.reads = Append(@, Read("result"))]
    /\ pc' = "_check_status"
    /\ stack' = <<"RunCode_return">>
    /\ UNCHANGED <<io, heap, thr, RL, session, fr, params, call, ret, status, name, srvIn, srv,
                   livePorts, sent, outcome, stdout>>

\* return prog_status
RunCode_return ==
    /\ pc = "RunCode_return"
    /\ Done(arg.busy, <<>>)
    /\ UNCHANGED <<io, heap, thr, RL, session, fr, params, call, arg, ret, status, name, inb, srvIn,
                   srv, livePorts, sent, h, stdout>>

\* Robolink.RunMessage: print('Message: ' + message), then _check_connection
RunMessage ==
    /\ pc = "RunMessage"
    /\ stdout' = [kind |-> "print", msg |-> "Message: ", text |-> arg.code]
    /\ pc' = "_check_connection"
    /\ UNCHANGED <<io, heap, thr, RL, session, fr, params, stack, call, arg, ret, status, name,
                   inb, srvIn, srv, livePorts, sent, h, outcome>>

\* 'RunMessage', the flag, the message on one line, the status
RunMessage_send ==
    /\ pc = "RunMessage_send"
    /\ send(<<_send_line("RunMessage"), _send_int(arg.flag),
              _send_line(normalized(arg.code))>>,
            "_check_status", <<"return_None">>)
    /\ UNCHANGED <<io, heap, thr, RL, session, fr, params, call, arg, ret, status, name, inb, srv,
                   livePorts, h, stdout>>

\* a method with no return value ends after its status
return_None ==
    /\ pc = "return_None"
    /\ Done(0, <<>>)
    /\ UNCHANGED <<io, heap, thr, RL, session, fr, params, call, arg, ret, status, name, inb, srvIn,
                   srv, livePorts, sent, h, stdout>>

MSG_POSES == "The number of items must match the number of poses"
MSG_JOINTS == "The size of the robot list does not match the size of the joints list"

\* Robolink.setPoses and setPosesAbs: the two lists must be as long as each
\* other; nothing is done for empty lists
setPoses ==
    /\ pc = "setPoses"
    /\ IF Len(arg.items) # Len(arg.poses)
       THEN Raise("Exception", MSG_POSES, <<>>)
       ELSE IF Len(arg.items) = 0
       THEN Done(0, <<>>)
       ELSE pc' = "_check_connection" /\ UNCHANGED <<stack, outcome>>
    /\ UNCHANGED <<io, heap, thr, RL, session, fr, params, call, arg, ret, status, name, inb,
                   srvIn, srv, livePorts, sent, h, stdout>>

\* the writes of the loop of setPoses, from the i-th item on
RECURSIVE setPoses_loop(_, _, _)
setPoses_loop(items, poses, i) ==
    IF i > Len(items) THEN <<>>
    ELSE <<_send_item(items[i])>> \o _send_pose(poses[i]).writes
         \o setPoses_loop(items, poses, i + 1)

\* 'S_Hlocals' or 'S_Hlocal_AbsS', the number of items, each item and its pose
setPoses_send ==
    /\ pc = "setPoses_send"
    /\ send(<<_send_line(IF call = "setPoses" THEN "S_Hlocals" ELSE "S_Hlocal_AbsS"),
              _send_int(Len(arg.items))>> \o setPoses_loop(arg.items, arg.poses, 1),
            "_check_status", <<"return_None">>)
    /\ stdout' = IF RL.COM = "open" /\ \E i \in 1..Len(arg.poses) : ~isHomogeneous(arg.poses[i])
                 THEN [kind |-> "print", msg |-> MSG_NOT_HOMOGENEOUS, text |-> <<>>]
                 ELSE stdout
    /\ UNCHANGED <<io, heap, thr, RL, session, fr, params, call, arg, ret, status, name, inb, srv,
                   livePorts, h>>

\* mutant: setJoints does not compare the lengths of its lists
setJoints_unchecked ==
    /\ pc = "setJoints"
    /\ pc' = "_check_connection"
    /\ UNCHANGED <<io, heap, thr, RL, session, fr, params, stack, call, arg, ret, status, name,
                   inb, srvIn, srv, livePorts, sent, h, outcome, stdout>>

\* Robolink.setJoints: the two lists must be as long as each other
setJoints ==
    /\ pc = "setJoints"
    /\ IF Len(arg.robot_item_list) # Len(arg.joints)
       THEN Raise("Exception", MSG_JOINTS, <<>>)
       ELSE pc' = "_check_connection" /\ UNCHANGED <<stack, outcome>>
    /\ UNCHANGED <<io, heap, thr, RL, session, fr, params, call, arg, ret, status, name, inb,
                   srvIn, srv, livePorts, sent, h, stdout>>

\* the writes of the loop of setJoints, from the i-th robot on; the loop
\* stops with an IndexError at a robot that has no joints
RECURSIVE setJoints_loop(_, _, _)
setJoints_loop(robot_item_list, joints_list, i) ==
    IF i > Len(robot_item_list) \/ i > Len(joints_list) THEN <<>>
    ELSE <<_send_item(robot_item_list[i])>> \o _send_array(joints_list[i])
         \o setJoints_loop(robot_item_list, joints_list, i + 1)

\* 'S_ThetasList', the number of robots, each robot and its joints
setJoints_send ==
    /\ pc = "setJoints_send"
    /\ send(<<_send_line("S_ThetasList"), _send_int(Len(arg.robot_item_list))>>
            \o setJoints_loop(arg.robot_item_list, arg.joints, 1),
            "_check_status", <<"return_None">>)
    /\ UNCHANGED <<io, heap, thr, RL, session, fr, params, call, arg, ret, status, name, inb, srv,
                   livePorts, h, stdout>>

MSG_COLOR == "The color vector must be a list of 3 or 4 values"
MSG_COLOR_RANGE == "WARNING: Color provided is not in the range [0,1] ([r,g,b,a])"
MSG_TOLERANCE == "tolerance must be a scalar"

\* the largest and the smallest value of a list that is not empty
max(values) == CHOOSE v \in {values[k] : k \in 1..Len(values)} :
                   \A k \in 1..Len(values) : values[k] <= v
min(values) == CHOOSE v \in {values[k] : k \in 1..Len(values)} :
                   \A k \in 1..Len(values) : values[k] >= v

\* Robolink._check_color: the colour must be a list of 3 or 4 values; alpha 1
\* is appended to 3 values; a value above 1 or below -1 prints the warning
_check_color(color) ==
    IF color.type # "list" \/ Len(color.values) < 3 \/ Len(color.values) > 4
    THEN [raises |-> TRUE, color |-> color, warns |-> FALSE]
    ELSE LET c == IF Len(color.values) = 3 THEN Append(color.values, 1)
                  ELSE color.values
         IN  [raises |-> FALSE, color |-> List(c),
              warns |-> max(c) > 1 \/ min(c) < -1]

\* Item.setColor: the colour is checked, then 'S_Color', the item, the colour
setColor_send ==
    /\ pc = "setColor_send"
    /\ LET tocolor == _check_color(arg.tocolor)
       IN  /\ IF tocolor.raises
              THEN /\ Raise("Exception", MSG_COLOR, <<>>)
                   /\ UNCHANGED <<sent, srvIn>>
              ELSE send(<<_send_line("S_Color"), _send_item(arg.item)>>
                        \o _send_array(tocolor.color),
                        "_check_status", <<"return_None">>)
           /\ arg' = [arg EXCEPT !.tocolor = tocolor.color]
           /\ stdout' = IF tocolor.warns
                        THEN [kind |-> "print", msg |-> MSG_COLOR_RANGE, text |-> <<>>]
                        ELSE stdout
    /\ UNCHANGED <<io, heap, thr, RL, session, fr, params, call, ret, status, name, inb, srv,
                   livePorts, h>>

\* not x, of None, a number or a list
not(x) ==
    CASE x.type = "None" -> TRUE
      [] x.type = "int" -> x.item = 0
      [] x.type = "list" -> x.values = <<>>
      [] OTHER -> FALSE

\* Item.Recolor: the defaults of fromcolor and of tolerance, the tolerance must
\* be a number, the two colours are checked; then 'Recolor', the item and the
\* array [tolerance] + fromcolor + tocolor (the default 0.1 is the double "0.1")
Recolor_send ==
    /\ pc = "Recolor_send"
    /\ LET fromcolor == IF not(arg.fromcolor) THEN List(<<0, 0, 0, 0>>) ELSE arg.fromcolor
           tolerance == IF not(arg.fromcolor) THEN PyInt(2)
                        ELSE IF not(arg.tolerance) THEN PyFloat(0)
                        ELSE arg.tolerance
           to == _check_color(arg.tocolor)
           from == _check_color(fromcolor)
           array == _send_array(List(<<tolerance.item>> \o from.color.values
                                     \o to.color.values))
       IN  /\ IF tolerance.type \notin {"int", "float"}
              THEN /\ Raise("Exception", MSG_TOLERANCE, <<>>)
                   /\ UNCHANGED <<sent, srvIn, arg, stdout>>
              ELSE IF to.raises \/ from.raises
              THEN /\ Raise("Exception", MSG_COLOR, <<>>)
                   /\ arg' = [arg EXCEPT !.tocolor = to.color]
                   /\ stdout' = IF to.warns
                                THEN [kind |-> "print", msg |-> MSG_COLOR_RANGE,
                                      text |-> <<>>]
                                ELSE stdout
                   /\ UNCHANGED <<sent, srvIn>>
              ELSE /\ send(<<_send_line("Recolor"), _send_item(arg.item)>>
                           \o (IF tolerance.type = "float"
                               THEN [array EXCEPT ![2].s = "0.1"] ELSE array),
                           "_check_status", <<"return_None">>)
                   /\ arg' = [arg EXCEPT !.tocolor = to.color, !.fromcolor = from.color,
                                         !.tolerance = tolerance]
                   /\ stdout' = IF to.warns \/ from.warns
                                THEN [kind |-> "print", msg |-> MSG_COLOR_RANGE,
                                      text |-> <<>>]
                                ELSE stdout
    /\ UNCHANGED <<io, heap, thr, RL, session, fr, params, call, ret, status, name, inb, srv,
                   livePorts, h>>

\* Robolink.ItemList: the command of the kind of list asked for, and the
\* filter if there is one
ItemList_send ==
    /\ pc = "ItemList_send"
    /\ LET command == IF arg.list_names
                      THEN IF arg.filter = None THEN "G_List_Items"
                                                ELSE "G_List_Items_Type"
                      ELSE IF arg.filter = None THEN "G_List_Items_ptr"
                                                ELSE "G_List_Items_Type_ptr"
       IN  send(<<_send_line(command)>>
                \o (IF arg.filter = None THEN <<>> ELSE <<_send_int(arg.filter.item)>>),
                "ItemList_rec_int", <<>>)
    /\ UNCHANGED <<io, heap, thr, RL, session, fr, params, call, arg, ret, status, name, inb, srv,
                   livePorts, h, stdout>>

\* count = self._rec_int()
ItemList_rec_int ==
    /\ pc = "ItemList_rec_int"
    /\ Len(inb) >= 4
    /\ LET r == _rec_int(inb)
       IN  /\ arg' = [arg EXCEPT !.count = r.num]
           /\ inb' = r.rest
    /\ h' = [h EXCEPT !.reads = Append(@, Read("count"))]
    /\ pc' = "ItemList_loop"
    /\ UNCHANGED <<io, heap, thr, RL, session, fr, params, stack, call, ret, status, name, srvIn,
                   srv, livePorts, sent, outcome, stdout>>

\* mutant: the list is built from the front
ItemList_loop_prepends ==
    /\ pc = "ItemList_loop"
    /\ IF Len(arg.retlist) < arg.count
       THEN /\ arg.list_names
            /\ _rec_line_ready(inb)
            /\ arg' = [arg EXCEPT !.retlist = <<_rec_line(inb).string>> \o @]
            /\ inb' = _rec_line(inb).rest
            /\ h' = [h EXCEPT !.reads = Append(@, Read("name"))]
            /\ UNCHANGED <<pc, stack>>
       ELSE /\ pc' = "_check_status"
            /\ stack' = <<"ItemList_return">>
            /\ UNCHANGED <<arg, inb, h>>
    /\ UNCHANGED <<io, heap, thr, RL, session, fr, params, call, ret, status, name, srvIn, srv,
                   livePorts, sent, outcome, stdout>>

\* for i in range(count): one name, or one handle, is read and appended;
\* after the last one the status is read
ItemList_loop ==
    /\ pc = "ItemList_loop"
    /\ IF Len(arg.retlist) < arg.count
       THEN /\ IF arg.list_names
               THEN /\ _rec_line_ready(inb)
                    /\ arg' = [arg EXCEPT !.retlist = Append(@, _rec_line(inb).string)]
                    /\ inb' = _rec_line(inb).rest
                    /\ h' = [h EXCEPT !.reads = Append(@, Read("name"))]
               ELSE /\ Len(inb) >= 12
                    /\ arg' = [arg EXCEPT !.retlist =
                                  Append(@, [item |-> _rec_item(inb).item,
                                             type |-> _rec_item(inb).type])]
                    /\ inb' = _rec_item(inb).rest
                    /\ h' = [h EXCEPT !.reads = Append(@, Read("item"))]
            /\ UNCHANGED <<pc, stack>>
       ELSE /\ pc' = "_check_status"
            /\ stack' = <<"ItemList_return">>
            /\ UNCHANGED <<arg, inb, h>>
    /\ UNCHANGED <<io, heap, thr, RL, session, fr, params, call, ret, status, name, srvIn, srv,
                   livePorts, sent, outcome, stdout>>

\* return retlist
ItemList_return ==
    /\ pc = "ItemList_return"
    /\ Done(0, arg.retlist)
    /\ UNCHANGED <<io, heap, thr, RL, session, fr, params, call, arg, ret, status, name, inb, srvIn,
                   srv, livePorts, sent, h, stdout>>

\* the application answers a list request: the count, the names or the
\* handles of the items of the station, the status
ItemList_Server ==
    /\ srv = "ready"
    /\ srvIn # <<>>
    /\ inb = <<>>
    /\ pc = "ItemList_rec_int"
    /\ LET names == srvIn[1].s \in {"G_List_Items", "G_List_Items_Type"}
           RECURSIVE cat(_)
           cat(l) == IF l = <<>> THEN <<>>
                     ELSE (IF names THEN line_bytes(Head(l)) ELSE item_bytes(Head(l)))
                          \o cat(Tail(l))
       IN  \E n \in 0..MaxNames, st \in {0, 1, 2, 3} : \E msg \in MsgsFor(st) :
           \E l \in [1..n -> IF names THEN Msgs ELSE {it \in Pickable : it.item # 0}] :
              /\ inb' = pack_i(n) \o cat(l) \o status_bytes(st, msg)
              /\ h' = [h EXCEPT !.replies = Append(@, [st |-> st, msg |-> msg]),
                                !.srvList = l]
    /\ srvIn' = <<>>
    /\ UNCHANGED <<io, heap, thr, RL, session, fr, params, pc, stack, call, arg, ret, status, name,
                   srv, livePorts, sent, outcome, stdout>>

\* Robolink.RunProgram: self.Item(fcn_param, ITEM_TYPE_PROGRAM) when it has to
\* wait, self.RunCode(fcn_param, True) when it has not
RunProgram ==
    /\ pc = "RunProgram"
    /\ pc' = "_check_connection"
    /\ IF arg.wait_for_finished
       THEN /\ stack' = <<"Item_send", "RunProgram_Valid">>
            /\ UNCHANGED arg
       ELSE /\ stack' = <<"RunCode_send">>
            /\ arg' = [arg EXCEPT !.flag = 1]
    /\ UNCHANGED <<io, heap, thr, RL, session, fr, params, call, ret, status, name, inb, srvIn,
                   srv, livePorts, sent, h, outcome, stdout>>

\* Robolink.Item(name, itemtype): 'G_Item2', the name, the type
Item_send ==
    /\ pc = "Item_send"
    /\ send(<<_send_line("G_Item2"), _send_line(arg.code), _send_int(ITEM_TYPE_PROGRAM)>>,
            "Item_rec_item", stack)
    /\ UNCHANGED <<io, heap, thr, RL, session, fr, params, call, arg, ret, status, name, inb, srv,
                   livePorts, h, stdout>>

\* item = self._rec_item(), then the status
Item_rec_item ==
    /\ pc = "Item_rec_item"
    /\ Len(inb) >= 12
    /\ arg' = [arg EXCEPT !.picked = [item |-> _rec_item(inb).item,
                                      type |-> _rec_item(inb).type]]
    /\ inb' = _rec_item(inb).rest
    /\ h' = [h EXCEPT !.reads = Append(@, Read("result"))]
    /\ pc' = "_check_status"
    /\ stack' = <<"Item_return">> \o stack
    /\ UNCHANGED <<io, heap, thr, RL, session, fr, params, call, ret, status, name, srvIn, srv,
                   livePorts, sent, outcome, stdout>>

\* return item
Item_return ==
    /\ pc = "Item_return"
    /\ Return(0)
    /\ UNCHANGED <<io, heap, thr, RL, session, fr, params, call, arg, status, name, inb, srvIn,
                   srv, livePorts, sent, h, outcome, stdout>>

MSG_INVALID_PROGRAM == "Invalid program %s"
MSG_NO_ATTRIBUTE == "'Item' object has no attribute 'RunProgram'"

\* if not prog_item.Valid(): raise; prog_item.RunProgram(): class Item has no
\* method of this name, the attribute lookup raises
RunProgram_Valid ==
    /\ pc = "RunProgram_Valid"
    /\ IF ~Valid(arg.picked.item)
       THEN Raise("Exception", MSG_INVALID_PROGRAM, arg.code)
       ELSE Raise("AttributeError", MSG_NO_ATTRIBUTE, <<>>)
    /\ UNCHANGED <<io, heap, thr, RL, session, fr, params, call, arg, ret, status, name, inb, srvIn,
                   srv, livePorts, sent, h, stdout>>

\* the application answers a lookup: the handle of the item of that name and
\* type, null if there is none, and the status
Item_Server ==
    /\ srv = "ready"
    /\ srvIn # <<>>
    /\ inb = <<>>
    /\ pc = "Item_rec_item"
    /\ \E it \in Pickable, st \in {0, 1, 2, 3} : \E msg \in MsgsFor(st) :
          /\ inb' = item_bytes(it) \o status_bytes(st, msg)
          /\ h' = [h EXCEPT !.replies = Append(@, [st |-> st, msg |-> msg]),
                            !.srvItem = it]
    /\ srvIn' = <<>>
    /\ UNCHANGED <<io, heap, thr, RL, session, fr, params, pc, stack, call, arg, ret, status, name,
                   srv, livePorts, sent, outcome, stdout>>

\* self.setSpeed(speed_linear, speed_joints, accel_linear, accel_joints) is
\* called with these four arguments
call_setSpeed(speed_linear, speed_joints, accel_linear, accel_joints) ==
    /\ arg' = [arg EXCEPT !.speed = <<speed_linear, speed_joints, accel_linear,
                                      accel_joints>>]
    /\ pc' = "_check_connection"
    /\ stack' = <<"setSpeed_send">>
    /\ UNCHANGED <<io, heap, thr, RL, session, fr, params, call, ret, status, name, inb, srvIn,
                   srv, livePorts, sent, h, outcome, stdout>>

\* Item.setAcceleration: self.setSpeed(-1,accel_linear,-1,-1)
setAcceleration ==
    /\ pc = "setAcceleration"
    /\ call_setSpeed(-1, arg.value, -1, -1)

\* Item.setSpeedJoints: self.setSpeed(-1,-1,speed_joints,-1)
setSpeedJoints ==
    /\ pc = "setSpeedJoints"
    /\ call_setSpeed(-1, -1, arg.value, -1)

\* Item.setAccelerationJoints: self.setSpeed(-1,-1,-1,accel_joints)
setAccelerationJoints ==
    /\ pc = "setAccelerationJoints"
    /\ call_setSpeed(-1, -1, -1, arg.value)

\* Item.setSpeed: 'S_Speed4', the item, the array of the four values in the
\* order of the parameters, the status
setSpeed_send ==
    /\ pc = "setSpeed_send"
    /\ send(<<_send_line("S_Speed4"), _send_item(arg.item)>>
            \o _send_array(List(arg.speed)),
            "_check_status", <<"return_None">>)
    /\ UNCHANGED <<io, heap, thr, RL, session, fr, params, call, arg, ret, status, name, inb, srv,
                   livePorts, h, stdout>>

\* the application answers a request once the client reads: the program
\* status of RunCode and RunCode2, then the status
Checked_Server ==
    /\ srv = "ready"
    /\ srvIn # <<>>
    /\ inb = <<>>
    /\ pc \in {"RunCode_rec_int", "_check_status"}
    /\ \E st \in StatusCodes : \E msg \in MsgsFor(st), prog_status \in {0, 1} :
          /\ pc # "RunCode_rec_int" => prog_status = 0
          /\ inb' = (IF pc = "RunCode_rec_int" THEN pack_i(prog_status) ELSE <<>>)
                     \o status_bytes(st, msg)
          /\ h' = [h EXCEPT !.replies = Append(@, [st |-> st, msg |-> msg])]
    /\ srvIn' = <<>>
    /\ UNCHANGED <<io, heap, thr, RL, session, fr, params, pc, stack, call, arg, ret, status, name,
                   srv, livePorts, sent, outcome, stdout>>

Checked_Next ==
    \/ Checked_Call
    \/ _check_connection
    \/ _check_status_step
    \/ RunCode_send
    \/ RunCodeCustom_send
    \/ RunCode_rec_int
    \/ RunCode_return
    \/ RunMessage
    \/ RunMessage_send
    \/ return_None
    \/ setPoses
    \/ setPoses_send
    \/ setJoints
    \/ setJoints_send
    \/ setColor_send
    \/ Recolor_send
    \/ ItemList_send
    \/ ItemList_rec_int
    \/ ItemList_loop
    \/ ItemList_return
    \/ ItemList_Server
    \/ RunProgram
    \/ Item_send
    \/ Item_rec_item
    \/ Item_return
    \/ RunProgram_Valid
    \/ Item_Server
    \/ setAcceleration
    \/ setSpeedJoints
    \/ setAccelerationJoints
    \/ setSpeed_send
    \/ Checked_Server

SpecChecked == Session_Init /\ [][Checked_Next]_vars

----------------------------------------------------------------------------
(* Two objects of the class *)

\* self.a: the attribute of the instance if it has one, else the one of the class
getattr(hp, o, a) == IF a \in DOMAIN hp.self[o] THEN hp.self[o][a] ELSE hp.cls[a]
\* mutant: self.a = v sets the attribute of the class
setattr_of_class(hp, o, a, v) == [hp EXCEPT !.cls = (a :> v) @@ @]
\* self.a = v: sets the attribute of the instance
setattr(hp, o, a, v) == [hp EXCEPT !.self[o] = (a :> v) @@ @]
\* __init__ has run on o
Constructed(o) == "IP" \in DOMAIN heap.self[o]

\* _set_connection_params as far as the attributes go
ParamsSet(hp, o, safe_mode, auto_update, timeout) ==
    LET h1 == setattr(hp, o, "SAFE_MODE", safe_mode)
        h2 == setattr(h1, o, "AUTO_UPDATE", auto_update)
    IN  setattr(h2, o, "TIMEOUT",
                IF timeout # 0 THEN timeout ELSE getattr(h2, o, "TIMEOUT"))

\* Connect as far as the attributes go: a new socket for each port tried; when
\* port found accepts (0: none does), PORT and the handshake with the defaults
Connected(hp, o, found) ==
    IF getattr(hp, o, "PORT_END") < getattr(hp, o, "PORT_START") THEN hp
    ELSE IF found = 0
    THEN setattr(hp, o, "COM", [state |-> "unconnected", timeout |-> CONNECT_TIMEOUT])
    ELSE LET h1 == setattr(hp, o, "COM",
                           [state |-> "open", timeout |-> getattr(hp, o, "TIMEOUT")])
             h2 == setattr(h1, o, "PORT", found)
         IN  ParamsSet(h2, o, 1, 0, 0)

\* the ports of the range of o, and 0 for none
PortsOf(hp, o) == {0} \cup (getattr(hp, o, "PORT_START")..getattr(hp, o, "PORT_END"))

\* Robolink(robodk_ip, port)
Obj___init__ ==
    \E o \in Objs, ip \in Hosts, port \in {0, DEFAULT_PORT + 1} :
       /\ ~Constructed(o)
       /\ LET h1 == setattr(heap, o, "IP", ip)
              h2 == IF port # 0
                    THEN setattr(setattr(h1, o, "PORT_START", port), o, "PORT_END", port)
                    ELSE h1
          IN  \E found \in PortsOf(h2, o) :
                 heap' = [Connected(h2, o, found) EXCEPT !.actor = o]
       /\ UNCHANGED <<link, thr, io>>

\* Robolink.Connect
Obj_Connect ==
    \E o \in Objs :
       /\ Constructed(o)
       /\ \E found \in PortsOf(heap, o) :
             heap' = [Connected(heap, o, found) EXCEPT !.actor = o]
       /\ UNCHANGED <<link, thr, io>>

\* Robolink._set_connection_params(safe_mode, auto_update, timeout)
Obj__set_connection_params ==
    \E o \in Objs, safe_mode \in {0, 1}, auto_update \in {0, 1},
       timeout \in {0, 2 * DEFAULT_TIMEOUT} :
       /\ Constructed(o)
       /\ heap' = [ParamsSet(heap, o, safe_mode, auto_update, timeout)
                     EXCEPT !.actor = o]
       /\ UNCHANGED <<link, thr, io>>

\* Item.WaitMove of an item of o: the timeout of the socket of o is extended,
\* and set back unless the status raises
Obj_WaitMove ==
    \E o \in Objs, raises \in BOOLEAN :
       /\ Constructed(o)
       /\ getattr(heap, o, "COM").state = "open"
       /\ heap' = [setattr(heap, o, "COM",
                           [state |-> "open",
                            timeout |-> IF raises THEN WAITMOVE_TIMEOUT
                                        ELSE getattr(heap, o, "TIMEOUT")])
                     EXCEPT !.actor = o]
       /\ UNCHANGED <<link, thr, io>>

Objects_Init == Session_Link /\ heap = NoHeap /\ thr = NoCallers /\ io = NoIo

Objects_Next ==
    \/ Obj___init__
    \/ Obj_Connect
    \/ Obj__set_connection_params
    \/ Obj_WaitMove

SpecObjects == Objects_Init /\ [][Objects_Next]_vars

----------------------------------------------------------------------------
(* Status protocol *)

\* the status the application sent that _check_status has read last
LastReply == h.lastReply

\* C1: when the status read is 3, _check_status reads exactly one line and
\* raises an error whose message is that line; the socket stays open and no
\* byte of the response is left in the stream, so the next command of the
\* session starts on an aligned stream.
C1_Status3RaisesItsLine ==
    (h.statusReads >= 1 /\ status = 3) =>
        /\ LastReply.st = 3
        /\ pc = "idle"
        /\ outcome = [kind |-> "raise", exc |-> "Exception", msg |-> "",
                      text |-> LastReply.msg, val |-> 0]
        /\ h.csLines = 1
        /\ h.csBytes = 4 + Len(LastReply.msg) + 1
        /\ RL.COM = "open"
        /\ inb = <<>>
        /\ session = "Ready"

C1_Witness ==
    /\ h.statusReads >= 1 /\ status = 3
    /\ call = "Name"
    /\ outcome.kind = "raise" /\ outcome.text = <<65>>

\* C2: when the status read is 2, _check_status reads exactly one line,
\* prints it as a warning and returns 0 without raising; the command that
\* called it returns its result.
C2_Status2Warns ==
    (h.statusReads >= 1 /\ status = 2) =>
        /\ LastReply.st = 2
        /\ h.csLines = 1
        /\ h.csBytes = 4 + Len(LastReply.msg) + 1
        /\ stdout = [kind |-> "print", msg |-> "WARNING: ", text |-> LastReply.msg]
        /\ outcome.kind # "raise"
        /\ pc \in {"ShowRoboDK_return", "Name_return", "WaitMove_wait",
                   "WaitMove_return", "_check_status", "idle"}
        /\ pc # "idle" => ret = 0
        /\ pc = "idle" =>
              outcome = Returned(0, IF call = "Name" THEN h.srvName ELSE <<>>)

C2_Witness ==
    /\ h.statusReads >= 1 /\ status = 2
    /\ pc = "idle" /\ call = "Name"
    /\ outcome.kind = "return" /\ outcome.text = <<66>>
    /\ stdout.text = <<65>>

\* the codes of claim C3
FatalCode(st) == st = 1 \/ (st >= 4 /\ st <= 9) \/ st >= 10

\* a fatal code has ended the call with message msg, and _check_status read
\* the 4 bytes of the code and nothing else
RaisedOnCode(msg) ==
    /\ LastReply.st = status
    /\ pc = "idle"
    /\ outcome = [kind |-> "raise", exc |-> "Exception", msg |-> msg,
                  text |-> <<>>, val |-> 0]
    /\ h.csBytes = 4
    /\ h.csLines = 0

\* C3 as stated: codes 1, 4..8, 9 and >= 10 raise without reading further
\* bytes; 1 gives the invalid-item message, 9 the licensing message, every
\* other one 'Problems running function'.
C3_Original ==
    (h.statusReads >= 1 /\ FatalCode(status)) =>
        RaisedOnCode(CASE status = 1 -> MSG_INVALID_ITEM
                       [] status = 9 -> MSG_LICENSE
                       [] OTHER -> "Problems running function")

\* C3 amended: codes 1, 4..8, 9 and >= 10 raise without reading further bytes;
\* 1 gives the invalid-item message, 9 the licensing message, 4..8 give
\* 'Unknown error' and codes >= 10 give 'Problems running function'.
C3_FatalCodes ==
    (h.statusReads >= 1 /\ FatalCode(status)) =>
        RaisedOnCode(CASE status = 1 -> MSG_INVALID_ITEM
                       [] status = 9 -> MSG_LICENSE
                       [] status >= 10 -> "Problems running function"
                       [] OTHER -> "Unknown error")

C3_Witness ==
    /\ h.statusReads = 2 /\ status = 9
    /\ pc = "idle" /\ outcome.msg = MSG_LICENSE

\* C4 as stated: a negative status does not raise and is returned as it is.
C4_Original ==
    (h.statusReads >= 1 /\ status < 0) =>
        /\ outcome.kind # "raise"
        /\ pc # "idle" => ret = status

\* C4 amended: a negative status raises 'Problems running function' without
\* reading further bytes.
C4_NegativeRaises ==
    (h.statusReads >= 1 /\ status < 0) =>
        RaisedOnCode("Problems running function")

C4_Witness ==
    /\ h.statusReads >= 1 /\ status = 0 - 1
    /\ pc = "idle" /\ outcome.kind = "raise"

----------------------------------------------------------------------------
(* Connection manager *)

\* Connect has just returned to its caller, with its value in ret
ConnectReturned == pc \in {"__init___return", "Connect_done", "_check_connection_return"}

PortRange == RL.PORT_START..RL.PORT_END
NoLivePort == livePorts \cap PortRange = {}
Last(t) == t[Len(t)]

\* C5: Connect with no live port in the range and a host other than
\* localhost makes exactly one scan pass over the whole range, never starts
\* the application, and returns 0.
C5_RemoteFailsAtOnce ==
    /\ RL.IP # "localhost" => h.spawns = 0 /\ pc # "Connect_spawn"
    /\ (ConnectReturned /\ RL.IP # "localhost" /\ NoLivePort) =>
          /\ h.scans = 1
          /\ Len(h.tried) = Cardinality(PortRange)
          /\ ret = 0

C5_Witness ==
    /\ pc = "Connect_done"
    /\ RL.IP # "localhost" /\ NoLivePort
    /\ Len(h.tried) = 2
    /\ ret = 0

\* C6 as stated: Connect on localhost with no live port, and an application
\* that starts without error but never listens, spawns the application
\* exactly once, scans the range exactly twice, and returns 0.
C6_Original ==
    (ConnectReturned /\ RL.IP = "localhost" /\ NoLivePort) =>
        /\ h.spawns = 1
        /\ h.scans = 2
        /\ ret = 0

\* C7: Connect makes at most two scan passes; a pass tries the ports of the
\* range in ascending order and stops at the first one that accepts the
\* connection; that port becomes PORT before the handshake writes anything;
\* PORT keeps its value while no port has been found live.
C7_FirstLivePort ==
    /\ h.scans <= 2
    /\ \A k \in 1..Len(h.tried) : h.tried[k] = RL.PORT_START + k - 1
    /\ pc \in {"Connect_scan", "Connect_after_scan"} \/ session = "Handshaking" =>
          \A k \in 1..(Len(h.tried) - 1) : h.tried[k] \notin livePorts
    /\ session = "Handshaking" =>
          /\ h.tried # <<>>
          /\ Last(h.tried) \in livePorts
          /\ h.found = Last(h.tried)
          /\ RL.PORT = Last(h.tried)
    /\ (sent # <<>> /\ sent[1] = _send_line("CMD_START")) => RL.PORT = Last(h.tried)
    /\ (session = "Connecting" /\ pc # "Connect_end") => RL.PORT = h.port0
    /\ (ConnectReturned /\ NoLivePort) => RL.PORT = h.port0

C7_Witness ==
    /\ session = "Handshaking"
    /\ pc = "_set_connection_params_rec"
    /\ h.scans = 2
    /\ Len(h.tried) = 2
    /\ h.port0 = DEFAULT_PORT
    /\ RL.PORT = DEFAULT_PORT + 1

\* C8: once a port has been found live, Connect writes the line 'CMD_START'
\* and the line '<SAFE_MODE> <AUTO_UPDATE>', reads exactly one line, and
\* returns 1 if and only if that line is 'READY'; for any other reply it
\* returns 0 with the socket open.
C8_Handshake ==
    /\ (session = "Handshaking" /\ pc \in {"_set_connection_params_rec", "Connect_return"}) =>
          sent = <<_send_line("CMD_START"),
                   _send_line(str(RL.SAFE_MODE) \o " " \o str(RL.AUTO_UPDATE))>>
    /\ ConnectReturned =>
          IF h.found # 0
          THEN /\ sent = <<_send_line("CMD_START"),
                           _send_line(str(RL.SAFE_MODE) \o " " \o str(RL.AUTO_UPDATE))>>
               /\ h.hsLines = 1
               /\ inb = <<>>
               /\ RL.COM = "open"
               /\ ret \in {0, 1}
               /\ ret = 1 <=> h.hsReply = READY
          ELSE sent = <<>> /\ h.hsLines = 0 /\ ret = 0

C8_Witness ==
    /\ pc = "Connect_done"
    /\ h.hsReply = <<66, 85, 83, 89>>
    /\ RL.COM = "open"
    /\ ret = 0

\* C9 as stated: when the last Connect returned 0 a command call reconnects
\* or raises 'Unable to connect', so a command line is written only on a
\* session that is Ready.
C9_Original ==
    h.cmdLines > 0 => session = "Ready"

----------------------------------------------------------------------------
(* Command dispatcher *)

Commands == {"Name", "ShowRoboDK", "WaitMove"}

\* a command has written its command line and has ended, by a return or by
\* a status that raised
Completed ==
    /\ pc = "idle"
    /\ call \in Commands
    /\ h.cmdLines > 0
    /\ outcome.kind = "return" \/ (outcome.exc = "Exception" /\ h.statusReads >= 1)

\* C10 as stated: every command, WaitMove included, consumes exactly one
\* status code between the write of its command line and its return.
C10_Original == Completed => h.statusReads = 1

\* C10 amended: every command other than WaitMove consumes exactly one status
\* code, as its last read; WaitMove consumes two, the second only if the
\* first did not raise.  Nothing of the response is left unread.
C10_StatusPerCommand ==
    Completed =>
        /\ h.replies = <<>>
        /\ inb = <<>>
        /\ IF call = "WaitMove"
           THEN \/ h.statusReads = 2
                \/ /\ h.statusReads = 1
                   /\ outcome.kind = "raise"
                   /\ LastReply.st \notin {0, 2}
           ELSE h.statusReads = 1

C10_Witness ==
    /\ Completed
    /\ call = "WaitMove"
    /\ outcome.kind = "return"
    /\ h.statusReads = 2

----------------------------------------------------------------------------
(* Order of the writes and reads of a command *)

\* the command names
Verbs ==
    {"RAISE", "G_Name", "WaitMove", "IsBusy", "G_ThetasList", "ShowMessage",
     "ShowMessageStatus", "PickItem", "MoveX", "MoveC", "Remove"}

IsCmd(token) == token.k = "line" /\ token.s \in Verbs
\* the i-th write of the call is one of the two lines of the handshake
IsHandshake(i) ==
    \/ sent[i] = _send_line("CMD_START")
    \/ i > 1 /\ sent[i - 1] = _send_line("CMD_START")
\* the i-th write is an argument of a command
IsArgument(i) == ~IsCmd(sent[i]) /\ ~IsHandshake(i)
\* the reads made between the n-th write and the next one
ReadsAfter(n) == {j \in 1..Len(h.reads) : h.reads[j].at = n}
\* the name of the command the i-th write belongs to
VerbOf(i) ==
    LET j == CHOOSE c \in 1..i :
                 /\ IsCmd(sent[c])
                 /\ \A d \in (c + 1)..i : ~IsCmd(sent[d])
    IN  sent[j].s
\* no result is read after a status without a write between the two
ResultsBeforeStatus ==
    \A j \in 1..(Len(h.reads) - 1) :
        (h.reads[j].k = "status" /\ h.reads[j + 1].k = "result") =>
            h.reads[j + 1].at > h.reads[j].at

\* C11 as stated: each command writes its name line first, writes every
\* argument before it reads any result, and reads every result before the
\* status: no argument is written after a read, and no result is read after
\* the status.
C11_Original ==
    /\ \A i \in 1..Len(sent) :
          IsArgument(i) => i > 1 /\ ReadsAfter(i - 1) = {}
    /\ ResultsBeforeStatus

\* C11: each command writes its name line first and reads its results before
\* its status. Every verb but G_ThetasList writes all its arguments before it
\* reads a result; Robolink.Joints writes the name and the robot count, then
\* for each robot writes its pointer and reads the joints of that robot before
\* it writes the next pointer.
C11_WriteReadOrder ==
    /\ \A i \in 1..Len(sent) :
          IsArgument(i) =>
             /\ i > 1
             /\ IF VerbOf(i) = "G_ThetasList" /\ sent[i].k = "item"
                   /\ sent[i - 1].k = "item"
                THEN /\ Cardinality(ReadsAfter(i - 1)) = 1
                     /\ \A j \in ReadsAfter(i - 1) : h.reads[j].k = "result"
                ELSE ReadsAfter(i - 1) = {}
    /\ ResultsBeforeStatus

C11_Witness ==
    /\ pc = "idle" /\ call = "Joints" /\ outcome.kind = "return"
    /\ Len(arg.joints_list) = 2
    /\ Len(sent) = 4
    /\ h.reads = <<[k |-> "result", at |-> 3], [k |-> "result", at |-> 4],
                   [k |-> "status", at |-> 4]>>

----------------------------------------------------------------------------
(* Socket timeout of the calls that wait for the user or for the robot *)

\* one of the three calls that extend the timeout has ended, by a return or
\* by a status that raised
ExtendedCallFinished ==
    /\ pc = "idle"
    /\ call \in {"ItemUserPick", "ShowMessage", "WaitMove"}
    /\ h.cmdLines > 0
    /\ outcome.kind = "return" \/ (outcome.exc = "Exception" /\ h.statusReads >= 1)

\* C14: whenever ItemUserPick, ShowMessage or WaitMove has finished, whether
\* it returned or raised on a fatal status, the timeout of the socket is the
\* configured TIMEOUT again.
C14_Original == ExtendedCallFinished => RL.COM_timeout = RL.TIMEOUT

----------------------------------------------------------------------------
(* Targets of a move *)

\* the place in sent of the command line of verb, 0 if it is not written
CmdAt(verb) ==
    IF \E c \in 1..Len(sent) : sent[c] = _send_line(verb)
    THEN CHOOSE c \in 1..Len(sent) : sent[c] = _send_line(verb)
    ELSE 0
\* n writes from the one at place c on
Written(c, n) == SubSeq(sent, c, c + n - 1)
\* the doubles of values as the writes of one array
DoublesOf(values) == [i \in 1..Len(values) |-> [k |-> "double", s |-> "", n |-> values[i]]]
\* the joints of a target given as a list or as a column matrix
JointsOf(target) ==
    IF target.type = "list" THEN target.values
    ELSE [i \in 1..Len(target.rows) |-> target.rows[i][1]]
\* the sixteen entries of a pose, column by column
ColumnMajor(pose) ==
    [n \in 1..16 |-> pose.rows[((n - 1) % 4) + 1][((n - 1) \div 4) + 1]]
\* the form of a target: 3 is an item, 2 a 4x4 pose, 1 joints
FormOf(target) ==
    CASE target.type = "Item" -> 3
      [] target.type = "Mat" /\ Len(target.rows) = 4 /\ Len(target.rows[1]) = 4 -> 2
      [] OTHER -> 1
\* what the claims say is written for a target
ExpectedBlock(target) ==
    CASE FormOf(target) = 3 ->
            <<_send_int(3), _send_int(0), _send_item(target.item)>>
      [] FormOf(target) = 1 ->
            <<_send_int(1), _send_int(Len(JointsOf(target)))>>
            \o DoublesOf(JointsOf(target)) \o <<_send_item(0)>>
      [] FormOf(target) = 2 ->
            <<_send_int(2), _send_int(16)>> \o DoublesOf(ColumnMajor(target))
            \o <<_send_item(0)>>

\* C15: the target of a move is written in exactly one of three forms: an
\* item as tag 3, an empty array (count 0) and the item; joints as tag 1, the
\* array of the joints and the null item 0; a 4x4 pose as tag 2, the array
\* of its 16 entries column by column and the null item 0.  The block follows
\* 'MoveX' and the type of the move, and the robot follows the block.
C15_TargetForms ==
    (call = "MoveJ" /\ CmdAt("MoveX") > 0) =>
        LET block == ExpectedBlock(arg.target)
        IN  Written(CmdAt("MoveX"), 2 + Len(block) + 1)
               = <<_send_line("MoveX"), _send_int(1)>> \o block
                 \o <<_send_item(arg.item)>>

\* a move to a pose has been written and has returned
C15_Witness ==
    /\ call = "MoveJ" /\ CmdAt("MoveX") > 0
    /\ arg.target = Mat(Pose)
    /\ sent[CmdAt("MoveX") + 4] = [k |-> "double", s |-> "", n |-> 1]
    /\ sent[CmdAt("MoveX") + 5] = [k |-> "double", s |-> "", n |-> 5]
    /\ pc = "idle" /\ outcome.kind = "return"

\* C16: MoveC writes 'MoveC' and 3, then the block of its first target, then
\* the block of its second target, then the robot; each target is written in
\* its own form, whatever the form of the other (nine combinations).
C16_TwoTargets ==
    (call = "MoveC" /\ CmdAt("MoveC") > 0) =>
        LET block1 == ExpectedBlock(arg.target)
            block2 == ExpectedBlock(arg.target2)
        IN  Written(CmdAt("MoveC"), 2 + Len(block1) + Len(block2) + 1)
               = <<_send_line("MoveC"), _send_int(3)>> \o block1 \o block2
                 \o <<_send_item(arg.item)>>

\* a circular move through joints to a pose has been written and has returned
C16_Witness ==
    /\ call = "MoveC" /\ CmdAt("MoveC") > 0
    /\ FormOf(arg.target) = 1 /\ FormOf(arg.target2) = 2
    /\ sent[CmdAt("MoveC") + 2] = _send_int(1)
    /\ sent[CmdAt("MoveC") + 7] = _send_int(2)
    /\ pc = "idle" /\ outcome.kind = "return"

----------------------------------------------------------------------------
(* A move and the wait that follows it *)

\* the place in sent of the last write of 'MoveX': the robot
MoveXEnd == CmdAt("MoveX") + 2 + Len(ExpectedBlock(arg.target))
\* the last read of the call is a status read after n writes
LastReadIsStatusAt(n) ==
    /\ h.reads # <<>>
    /\ Last(h.reads) = [k |-> "status", at |-> n]
\* a move to joints whose 'MoveX' is written
JointMove == call = "MoveJ" /\ FormOf(arg.target) = 1 /\ CmdAt("MoveX") > 0

\* what holds in every state of a move to joints
C17_MoveStates ==
    JointMove =>
        /\ Written(CmdAt("MoveX"), 4) =
              <<_send_line("MoveX"), _send_int(1), _send_int(1),
                _send_int(Len(JointsOf(arg.target)))>>
        /\ sent[MoveXEnd - 1] = _send_item(0)
        /\ pc = "_moveX_blocking" =>
              status \in {0, 2} /\ Len(sent) = MoveXEnd /\ LastReadIsStatusAt(MoveXEnd)
        /\ Len(sent) > MoveXEnd =>
              /\ arg.blocking
              /\ SubSeq(sent, MoveXEnd + 1, Len(sent)) =
                    <<_send_line("WaitMove"), _send_item(arg.item)>>
        /\ (pc = "idle" /\ outcome.kind = "return") =>
              IF arg.blocking
              THEN /\ Len(sent) = MoveXEnd + 2
                   /\ LastReadIsStatusAt(MoveXEnd + 2)
                   /\ h.statusReads = 5
              ELSE /\ Len(sent) = MoveXEnd
                   /\ LastReadIsStatusAt(MoveXEnd)
        /\ (pc = "idle" /\ outcome.kind = "raise" /\ LastReadIsStatusAt(MoveXEnd)) =>
              Len(sent) = MoveXEnd /\ LastReply.st \notin {0, 2}

\* the step of a move to joints that writes after 'MoveX' is taken by a
\* blocking move whose last read is the status of 'MoveX', and that status
\* did not raise
C17_WaitStep ==
    (JointMove /\ Len(sent) = MoveXEnd /\ Len(sent') > Len(sent)) =>
        /\ arg.blocking
        /\ LastReadIsStatusAt(MoveXEnd)
        /\ LastReply.st \in {0, 2} /\ status = LastReply.st

\* C17: a move to joints writes 'MoveX' with tag 1, the joint array and the
\* null item, and reads the status.  A blocking move writes 'WaitMove'
\* after, and only after, that status has been read and did not raise (it
\* is 0, or 2 with its warning), and returns only when the statuses of that
\* WaitMove have been read; when the status of 'MoveX' raises, or the move is
\* not blocking, nothing is written after 'MoveX'.
C17_MoveThenWait == []C17_MoveStates /\ [][C17_WaitStep]_vars

\* a blocking move to joints has returned
C17_Witness ==
    /\ JointMove /\ arg.blocking /\ arg.target.type = "list"
    /\ pc = "idle" /\ outcome.kind = "return"
    /\ Len(sent) = MoveXEnd + 2

\* C18: WaitMove waits by reading, under the extended timeout, the status
\* the application sends for the wait command itself; it returns only after
\* that status has been read and did not raise, and it never asks for the
\* busy flag: all it writes is 'WaitMove' and the item.
C18_WaitIsOneRead ==
    /\ (pc = "_check_status" /\ stack # <<>> /\ Head(stack) = "WaitMove_return") =>
          /\ RL.COM_timeout = WAITMOVE_TIMEOUT
          /\ LastReadIsStatusAt(Len(sent))
          /\ LastReply.st \in {0, 2}
    /\ call = "WaitMove" =>
          /\ \A i \in 1..Len(sent) : sent[i] # _send_line("IsBusy")
          /\ Len(sent) <= 2
          /\ (pc = "idle" /\ outcome.kind = "return") =>
                /\ sent = <<_send_line("WaitMove"), _send_item(arg.item)>>
                /\ h.reads = <<[k |-> "status", at |-> 2], [k |-> "status", at |-> 2]>>
                /\ LastReply.st \in {0, 2}
                /\ h.replies = <<>> /\ inb = <<>>
                /\ srv \in {"ready", "gone"}

\* WaitMove has returned after the robot stopped with a warning
C18_Witness ==
    /\ call = "WaitMove" /\ pc = "idle" /\ outcome.kind = "return"
    /\ h.statusReads = 2 /\ LastReply.st = 2
    /\ sent = <<_send_line("WaitMove"), _send_item(1)>>

----------------------------------------------------------------------------
(* Items and arrays on the wire *)

\* ItemUserPick has just read its item
ItemJustRead ==
    /\ call = "ItemUserPick"
    /\ pc = "_check_status" /\ h.statusReads = 0
    /\ h.reads # <<>> /\ Last(h.reads).k = "result"

\* C19 as stated: an item is written as 12 bytes, the 8 of its pointer and
\* the 4 of its type, and read back from 12 bytes.
C19_Original ==
    /\ \A i \in 1..Len(sent) : sent[i].k = "item" => Len(wire(sent[i])) = 12
    /\ ItemJustRead => h.csBytes = 12

\* C19: an item is written as the 8 bytes of its pointer, big-endian, and
\* nothing else; an item is read from 12 bytes, the 8 of the pointer,
\* big-endian, then the 4 of the type.  A write and a read of an item do not
\* consume the same number of bytes.
C19_ItemLayout ==
    /\ \A i \in 1..Len(sent) :
          sent[i].k = "item" =>
             /\ Len(wire(sent[i])) = 8
             /\ wire(sent[i]) = <<0, 0, 0, 0>> \o U32Bytes(sent[i].n)
    /\ ItemJustRead =>
          /\ h.csBytes = 12
          /\ arg.picked = h.srvItem
          /\ inb = status_bytes(h.replies[1].st, h.replies[1].msg)

\* an item whose pointer has four bytes that differ has been read
C19_Witness ==
    /\ ItemJustRead
    /\ arg.picked = [item |-> 16909060, type |-> -3]
    /\ h.csBytes = 12

\* Joints has just read the array of a robot
ArrayJustRead ==
    /\ call = "Joints" /\ pc = "Joints_loop"
    /\ arg.joints_list # <<>>

\* C20: reading an array whose count is 0 consumes the 4 bytes of the count
\* and nothing more, and gives the array [0] of one element, never an empty
\* array; an array of n > 0 values is read from 4 + 8n bytes.
C20_EmptyArrayIsZero ==
    call = "Joints" =>
        /\ \A i \in 1..Len(arg.joints_list) :
              /\ arg.joints_list[i] # <<>>
              /\ arg.joints_list[i] =
                    IF h.srvJoints[i] = <<>> THEN <<0>> ELSE h.srvJoints[i]
        /\ ArrayJustRead =>
              h.csBytes = 4 + 8 * Len(h.srvJoints[Len(arg.joints_list)])

\* the array of the second robot came with the count 0
C20_Witness ==
    /\ ArrayJustRead
    /\ Len(arg.joints_list) = 2
    /\ h.srvJoints[1] # <<>> /\ h.srvJoints[2] = <<>>
    /\ arg.joints_list[2] = <<0>>
    /\ h.csBytes = 4

----------------------------------------------------------------------------
(* The wire codec, one method at a time *)

\* the doubles the codec is run on
Doubles == {0, 1, -3, 134217728}
\* bytes that follow the bytes a method is to read
After == <<7, LF>>

\* the sizes of the deliveries of a recv of at most n bytes
Deliveries(n) == {k \in {1, 3, 8, 64, 509, n} : k <= n}

\* struct.unpack of a buffer that is shorter than its format raises: the call
\* ends there, and the k bytes that were delivered are gone from the stream
short_read(k) ==
    [io EXCEPT !.pc = "done", !.ended = "struct.error",
               !.inb = SubSeq(@, k + 1, Len(@))]

\* _send_array(values), and the peer sends the same bytes back
Codec_send_array ==
    /\ io.op = "none"
    /\ \E values \in SeqsUpTo(Doubles, MaxArray) :
          io' = [NoIo EXCEPT !.op = "array", !.pc = "_rec_array",
                             !.value = List(values),
                             !.out = Bytes(_send_array(List(values))),
                             !.inb = Bytes(_send_array(List(values))) \o After]

\* _rec_array(): recv(4) for the count and, when it is above 0, one
\* recv(8*nvalues) for the doubles; each is given all it asks for, or less
Codec_rec_array ==
    /\ io.pc = "_rec_array"
    /\ _rec_array_ready(io.inb)
    /\ LET nvalues == _rec_int(io.inb).num
       IN  \E k1 \in Deliveries(4) :
           \E k2 \in IF nvalues > 0 THEN Deliveries(8 * nvalues) ELSE {0} :
              io' = IF k1 < 4 THEN short_read(k1)
                    ELSE IF nvalues > 0 /\ k2 < 8 * nvalues THEN short_read(4 + k2)
                    ELSE [io EXCEPT !.pc = "done", !.ended = "returned",
                                    !.result = List(_rec_array(io.inb).values),
                                    !.inb = _rec_array(io.inb).rest]

\* the ints the codec is run on, the floats (in quarters), the lists
Ints == {0 - 2147483647 - 1, 0 - 2147483647, -256, -1, 0, 1, 255, 65536, 2147483647}
Quarters == -10..10
IntArgs ==
    {PyInt(n) : n \in Ints} \cup {PyFloat(q) : q \in Quarters} \cup {List(<<n, 5>>) : n \in {-2, 7}}

\* _send_int(num), and the peer sends the same bytes back
Codec_send_int ==
    /\ io.op = "none"
    /\ \E num \in IntArgs :
          io' = [NoIo EXCEPT !.op = "int", !.pc = "_rec_int", !.value = num,
                             !.out = Bytes(<<_send_int(_send_int_num(num))>>),
                             !.inb = Bytes(<<_send_int(_send_int_num(num))>>) \o After]

\* _rec_int(): one recv(4), which is given four bytes or fewer
Codec_rec_int ==
    /\ io.pc = "_rec_int"
    /\ Len(io.inb) >= 4
    /\ \E k \in Deliveries(4) :
          io' = IF k < 4 THEN short_read(k)
                ELSE [io EXCEPT !.pc = "done", !.ended = "returned",
                                !.result = PyInt(_rec_int(io.inb).num),
                                !.inb = _rec_int(io.inb).rest]

\* the peer sends a handle: the pointer and the type
Codec_item ==
    /\ io.op = "none"
    /\ \E it \in Pickable :
          io' = [NoIo EXCEPT !.op = "item", !.pc = "_rec_item", !.value = ItemT(it.item),
                             !.out = item_bytes(it),
                             !.inb = item_bytes(it) \o After]

\* _rec_item(): recv(8) for the pointer, then recv(4) for the type; each is
\* given all it asks for, or less
Codec_rec_item ==
    /\ io.pc = "_rec_item"
    /\ Len(io.inb) >= 12
    /\ \E k1 \in Deliveries(8), k2 \in Deliveries(4) :
          io' = IF k1 < 8 THEN short_read(k1)
                ELSE IF k2 < 4 THEN short_read(8 + k2)
                ELSE [io EXCEPT !.pc = "done", !.ended = "returned",
                                !.result = ItemT(_rec_item(io.inb).item),
                                !.inb = _rec_item(io.inb).rest]

\* the bytes of the streams _rec_line is run on: A, LF, and the two bytes of
\* an e with an acute accent in UTF-8
LineBytes == {65, LF, 195, 169}

\* the peer has sent a stream
Codec_line ==
    /\ io.op = "none"
    /\ \E s \in SeqsUpTo(LineBytes, MaxStream) :
          io' = [NoIo EXCEPT !.op = "line", !.pc = "_rec_line", !.out = s, !.inb = s]

\* _rec_line: chari = self.COM.recv(1).decode('utf-8'), and the test of the
\* loop
Codec_rec_line_recv ==
    /\ io.pc = "_rec_line"
    /\ io.inb # <<>>
    /\ LET chari == Head(io.inb)
       IN  io' = [io EXCEPT !.inb = Tail(@), !.recvs = @ + 1, !.maxreq = 1,
                            !.pc = IF decodes(chari) /\ chari # LF THEN @ ELSE "done",
                            !.ended = IF ~decodes(chari) THEN "raised"
                                      ELSE IF chari = LF THEN "returned" ELSE @,
                            !.buf = IF decodes(chari) /\ chari # LF
                                    THEN Append(@, chari) ELSE @,
                            !.result = IF decodes(chari) /\ chari = LF
                                       THEN List(io.buf) ELSE @]

\* the matrices the codec is run on: R rows and C columns, the entry of row i
\* and column j is 10*i + j, negative where i + j is odd
MatOf(R, C) ==
    Mat([i \in 1..R |-> [j \in 1..C |->
           IF (i + j) % 2 = 1 THEN 0 - (10 * i + j) ELSE 10 * i + j]])
\* the shapes; the largest has more bytes than one recv of _rec_matrix asks for
Shapes == {<<0, 0>>, <<1, 0>>, <<2, 0>>, <<1, 1>>, <<2, 3>>, <<3, 2>>, <<9, 8>>}

\* _send_matrix(mat), and the peer sends the same bytes back
Codec_send_matrix ==
    /\ io.op = "none"
    /\ \E sh \in Shapes :
          io' = [NoIo EXCEPT !.op = "matrix", !.pc = "_rec_matrix",
                             !.value = MatOf(sh[1], sh[2]),
                             !.out = Bytes(_send_matrix(MatOf(sh[1], sh[2]))),
                             !.inb = Bytes(_send_matrix(MatOf(sh[1], sh[2]))) \o After]

\* _rec_matrix: the two sizes; Mat([[]]) when there is nothing to receive
Codec_rec_matrix ==
    /\ io.pc = "_rec_matrix"
    /\ Len(io.inb) >= 8
    /\ LET size1 == _rec_int(io.inb).num
           size2 == _rec_int(_rec_int(io.inb).rest).num
           recvsize == size1 * size2 * 8
       IN  \E k1 \in Deliveries(4), k2 \in Deliveries(4) :
              io' = IF k1 < 4 THEN short_read(k1)
                    ELSE IF k2 < 4 THEN short_read(4 + k2)
                    ELSE [io EXCEPT !.size = <<size1, size2>>,
                            !.inb = SubSeq(@, 9, Len(@)),
                            !.pc = IF recvsize > 0 THEN "_rec_matrix_recv" ELSE "done",
                            !.ended = IF recvsize > 0 THEN @ ELSE "returned",
                            !.result = IF recvsize > 0 THEN @ ELSE Mat(<<<<>>>>),
                            !.to_receive = IF recvsize > 0
                                           THEN to_receive(recvsize, <<>>) ELSE 0,
                            !.maxreq = IF recvsize > 0
                                       THEN to_receive(recvsize, <<>>) ELSE 0]

\* _rec_matrix: matbytes += self.COM.recv(to_receive), which delivers some of
\* the bytes asked for; after the last one the matrix is unpacked
Codec_rec_matrix_recv ==
    /\ io.pc = "_rec_matrix_recv"
    /\ io.inb # <<>>
    /\ LET recvsize == io.size[1] * io.size[2] * 8
           most == IF Len(io.inb) < io.to_receive THEN Len(io.inb) ELSE io.to_receive
       IN  \E n \in Deliveries(most) :
              LET matbytes == io.buf \o SubSeq(io.inb, 1, n)
                  next == to_receive(recvsize, matbytes)
              IN  io' = [io EXCEPT !.buf = matbytes,
                                   !.inb = SubSeq(@, n + 1, Len(@)),
                                   !.recvs = IF @ < 3 THEN @ + 1 ELSE @,
                                   !.to_receive = next,
                                   !.maxreq = IF next > @ THEN next ELSE @,
                                   !.pc = IF next > 0 THEN @ ELSE "done",
                                   !.ended = IF next > 0 THEN @ ELSE "returned",
                                   !.result = IF next > 0 THEN @
                                              ELSE unpack_matrix(io.size[1], io.size[2],
                                                                 matbytes)]

\* the poses the codec is run on: the rotation and translation of Pose with
\* a last row that is, or is not, [0,0,0,1]
Poses == {Mat(SubSeq(Pose, 1, 3) \o <<last>>) :
             last \in {<<0, 0, 0, 1>>, <<0, 0, 0, 0>>, <<-1, 2, 3, 4>>}}

\* _send_pose(pose), and the peer sends the same bytes back
Codec_send_pose ==
    /\ io.op = "none"
    /\ \E pose \in Poses :
          io' = [NoIo EXCEPT !.op = "pose", !.pc = "_rec_pose", !.value = pose,
                             !.printed = _send_pose(pose).printed,
                             !.out = Bytes(_send_pose(pose).writes),
                             !.inb = Bytes(_send_pose(pose).writes) \o After]

\* _rec_pose(): one recv(16*8), which is given 128 bytes or fewer
Codec_rec_pose ==
    /\ io.pc = "_rec_pose"
    /\ Len(io.inb) >= 128
    /\ \E k \in Deliveries(128) :
          io' = IF k < 128 THEN short_read(k)
                ELSE [io EXCEPT !.pc = "done", !.ended = "returned",
                                !.result = _rec_pose(io.inb).pose,
                                !.inb = _rec_pose(io.inb).rest]

Codec_Init == Session_Link /\ heap = NoHeap /\ thr = NoCallers /\ io = NoIo

Codec_Next ==
    /\ UNCHANGED <<link, heap, thr>>
    /\ \/ Codec_send_array
       \/ Codec_rec_array
       \/ Codec_send_int
       \/ Codec_rec_int
       \/ Codec_item
       \/ Codec_rec_item
       \/ Codec_line
       \/ Codec_rec_line_recv
       \/ Codec_send_pose
       \/ Codec_rec_pose
       \/ Codec_send_matrix
       \/ Codec_rec_matrix
       \/ Codec_rec_matrix_recv

SpecCodec == Codec_Init /\ [][Codec_Next]_vars

----------------------------------------------------------------------------
(* Two callers of one object *)

\* the item caller t asks the name of, and the name the station gives it
ItemOf(t) == t
NameOf(item) == <<64 + item>>

\* caller t calls Item.Name on the shared connection; callers that take
\* turns (thr.serial) call only when no other call is running
Shared_Call(t) ==
    /\ thr.pc[t] = "idle"
    /\ thr.calls < MaxCalls
    /\ thr.serial => \A u \in Callers : thr.pc[u] = "idle"
    /\ thr' = [thr EXCEPT !.pc[t] = "_check_connection", !.calls = @ + 1,
                          !.got[t] = <<>>]

\* self.link._check_connection(): the socket is there
Shared__check_connection(t) ==
    /\ thr.pc[t] = "_check_connection"
    /\ _is_connected(RL.COM) = 1
    /\ thr' = [thr EXCEPT !.pc[t] = "_send_line"]

\* self.link._send_line('G_Name')
Shared__send_line(t) ==
    /\ thr.pc[t] = "_send_line"
    /\ thr' = [thr EXCEPT !.pc[t] = "_send_item", !.cmds = @ + 1,
                          !.srvIn = Append(@, _send_line("G_Name"))]

\* self.link._send_item(self)
Shared__send_item(t) ==
    /\ thr.pc[t] = "_send_item"
    /\ thr' = [thr EXCEPT !.pc[t] = "_rec_line",
                          !.srvIn = Append(@, _send_item(ItemOf(t)))]

\* mutant: Name returns the line without reading the status
Shared__rec_line_returns(t) ==
    /\ thr.pc[t] = "_rec_line"
    /\ HasLine(thr.inb)
    /\ thr' = [thr EXCEPT !.pc[t] = "idle", !.got[t] = _rec_line(thr.inb).string,
                          !.inb = _rec_line(thr.inb).rest]

\* name = self.link._rec_line()
Shared__rec_line(t) ==
    /\ thr.pc[t] = "_rec_line"
    /\ _rec_line_ready(thr.inb)
    /\ LET r == _rec_line(thr.inb)
       IN  thr' = [thr EXCEPT !.pc[t] = IF r.raises THEN "idle" ELSE "_check_status",
                              !.got[t] = IF r.raises THEN <<>> ELSE r.string,
                              !.inb = r.rest]

\* self.link._check_status(), then return name unless it raised
Shared__check_status(t) ==
    /\ thr.pc[t] = "_check_status"
    /\ _check_status_ready(thr.inb)
    /\ LET c == _check_status(thr.inb)
       IN  thr' = [thr EXCEPT !.pc[t] = "idle", !.statuses = @ + 1, !.inb = c.rest,
                              !.got[t] = IF c.raises THEN <<>> ELSE @]

\* the station answers a request that is whole: the name of the item, the
\* status; it does not answer while a second command name stands where the
\* item is due
Shared_Server ==
    /\ Len(thr.srvIn) >= 2
    /\ thr.srvIn[1] = _send_line("G_Name")
    /\ thr.srvIn[2].k = "item"
    /\ \E st \in StatusCodes : \E msg \in MsgsFor(st) :
          thr' = [thr EXCEPT !.srvIn = SubSeq(@, 3, Len(@)),
                             !.inb = @ \o line_bytes(NameOf(thr.srvIn[2].n))
                                       \o status_bytes(st, msg)]

Shared_Init ==
    /\ Session_Link
    /\ heap = NoHeap
    /\ io = NoIo
    /\ thr \in {[NoCallers EXCEPT !.serial = b] : b \in BOOLEAN}

Shared_Next ==
    /\ UNCHANGED <<link, heap, io>>
    /\ \/ \E t \in Callers : Shared_Call(t)
       \/ \E t \in Callers : Shared__check_connection(t)
       \/ \E t \in Callers : Shared__send_line(t)
       \/ \E t \in Callers : Shared__send_item(t)
       \/ \E t \in Callers : Shared__rec_line(t)
       \/ \E t \in Callers : Shared__check_status(t)
       \/ Shared_Server

SpecShared == Shared_Init /\ [][Shared_Next]_vars

----------------------------------------------------------------------------
(* Independence of two objects *)

\* what an object sees of its connection
View(hp, o) ==
    [a \in {"COM", "PORT", "TIMEOUT", "SAFE_MODE", "AUTO_UPDATE"} |-> getattr(hp, o, a)]

\* C13: two Robolink objects share no state: a step of an operation on one
\* object leaves the socket, PORT, TIMEOUT, SAFE_MODE and AUTO_UPDATE of the
\* other object as they were, and the attributes of the class are never
\* written.
C13_StepKeepsOther ==
    /\ heap'.cls = heap.cls
    /\ \A o \in Objs :
          (Constructed(o) /\ heap'.actor # o) => View(heap', o) = View(heap, o)

C13_NoSharedState == [][C13_StepKeepsOther]_vars

\* both objects are connected, and the parameters of the first have been
\* changed while the second keeps its own
C13_Witness ==
    /\ Constructed(1) /\ Constructed(2)
    /\ heap.actor = 1
    /\ View(heap, 1).TIMEOUT = 2 * DEFAULT_TIMEOUT /\ View(heap, 1).SAFE_MODE = 0
    /\ View(heap, 1).COM = [state |-> "open", timeout |-> WAITMOVE_TIMEOUT]
    /\ View(heap, 2).TIMEOUT = DEFAULT_TIMEOUT /\ View(heap, 2).SAFE_MODE = 1
    /\ View(heap, 2).COM = [state |-> "unconnected", timeout |-> CONNECT_TIMEOUT]

----------------------------------------------------------------------------
(* One command in flight *)

\* the callers whose command name is written and whose status is not read
InFlight == {t \in Callers : thr.pc[t] \in {"_send_item", "_rec_line", "_check_status"}}

\* C12 as stated: for every interleaving of two callers of one object, at
\* most one command is in flight: no caller writes or reads between the
\* write of the command name of another caller and the read of its status.
C12_Original ==
    /\ Cardinality(InFlight) <= 1
    /\ thr.cmds - thr.statuses <= 1

\* C12: as long as the callers of one object call one at a time, at most one
\* command is in flight: every command name written but the last one has had
\* its status read, no caller writes or reads while another one is between
\* its command name and its status, and the name a call returns is the name
\* of the item it asked for.  The object has no lock of its own.
C12_OneInFlightWhenSerial ==
    thr.serial =>
        /\ Cardinality(InFlight) <= 1
        /\ thr.cmds - thr.statuses = Cardinality(InFlight)
        /\ \A t \in Callers :
              (thr.pc[t] = "idle" /\ thr.got[t] # <<>>) => thr.got[t] = NameOf(ItemOf(t))

\* the callers take turns: the first has its name, the second has read its
\* own and is about to read its status, after an earlier command
C12_Witness ==
    /\ thr.serial
    /\ thr.pc[1] = "idle" /\ thr.got[1] = NameOf(ItemOf(1))
    /\ thr.pc[2] = "_check_status" /\ thr.got[2] = NameOf(ItemOf(2))
    /\ thr.cmds = 2 /\ thr.statuses = 1

----------------------------------------------------------------------------
(* Round trips of the codec *)

\* a run of the codec on op has ended
Ran(op) == io.op = op /\ io.pc = "done"
\* the codec has run op and returned: every recv was given what it asked for
Whole(op) == Ran(op) /\ io.ended = "returned"

\* C21 as stated: _rec_array on the bytes of _send_array(values) returns the
\* values sent, for arrays of length 0, 1 and N.
C21_Original == Whole("array") => io.result = io.value

\* C21: _rec_array on the bytes of _send_array(values) returns the values sent,
\* in their order, for every array of one value or more; the bytes of the empty
\* array (the count 0 alone) come back as the array [0]; no byte after the
\* array is read.
C21_ArrayRoundTrip ==
    Whole("array") =>
        /\ io.out = pack_i(Len(io.value.values))
                     \o Bytes([i \in 1..Len(io.value.values) |->
                                  [k |-> "double", s |-> "", n |-> io.value.values[i]]])
        /\ io.value.values # <<>> => io.result = io.value
        /\ io.value.values = <<>> => io.result = List(<<0>>)
        /\ io.inb = After

\* an array of three different values has come back
C21_Witness ==
    /\ Whole("array")
    /\ io.value = List(<<-3, 134217728, 1>>)
    /\ io.result = io.value

\* the number four bytes stand for, big-endian, two's complement
TwosComplement(b) ==
    (b[1] - (IF b[1] >= 128 THEN 256 ELSE 0)) * 16777216 + b[2] * 65536 + b[3] * 256 + b[4]

\* C25: _send_int writes exactly 4 bytes, big-endian two's complement, and
\* _rec_int on them returns the value sent, for every integer from -2^31 to
\* 2^31-1; a float is sent as a nearest integer (at most 1/2 away from it),
\* never as its integer part when that is further away.
C25_IntRoundTrip ==
    Whole("int") =>
        /\ Len(io.out) = 4
        /\ \A k \in 1..4 : io.out[k] \in 0..255
        /\ io.result.type = "int"
        /\ TwosComplement(io.out) = io.result.item
        /\ io.inb = After
        /\ io.value.type = "int" => io.result = io.value
        /\ io.value.type = "float" =>
              /\ 4 * io.result.item - io.value.item <= 2
              /\ io.value.item - 4 * io.result.item <= 2

\* -1.75 has been sent as -2, which is not its integer part
C25_Witness ==
    /\ Whole("int")
    /\ io.value = PyFloat(-7)
    /\ io.result = PyInt(-2)
    /\ io.out = <<255, 255, 255, 254>>

\* the place of the first LF of a stream that has one
FirstLF(s) == CHOOSE k \in 1..Len(s) : s[k] = LF /\ \A j \in 1..(k - 1) : s[j] # LF

\* C26 as stated: on a stream that holds an LF, string decode returns exactly
\* the bytes before the first LF, having read one byte at a time up to and
\* including that LF and no byte after it.
C26_Original ==
    (Ran("line") /\ HasLine(io.out)) =>
        /\ io.ended = "returned"
        /\ io.result = List(SubSeq(io.out, 1, FirstLF(io.out) - 1))
        /\ io.inb = SubSeq(io.out, FirstLF(io.out) + 1, Len(io.out))
        /\ io.recvs = FirstLF(io.out)
        /\ io.maxreq = 1

\* the bytes of the doubles of a matrix, column by column
RECURSIVE ColumnBytes(_, _)
ColumnBytes(mat, k) ==
    IF k > size(mat)[1] * size(mat)[2] THEN <<>>
    ELSE pack_d(mat.rows[((k - 1) % size(mat)[1]) + 1][((k - 1) \div size(mat)[1]) + 1])
         \o ColumnBytes(mat, k + 1)

\* the payload of the matrix sent: its bytes after the two sizes
PayloadLen == Len(io.out) - 8

\* C22: _rec_matrix reads the payload in bounded chunks: every recv asks for
\* at most 512 bytes and for no more than the bytes still missing; however the
\* payload of R*C*8 bytes is delivered, it returns only when exactly that many
\* bytes are accumulated, and it reads no byte after them.
C22_BoundedChunks ==
    (io.op = "matrix" /\ io.pc # "_rec_matrix" /\ PayloadLen > 0
     /\ io.ended # "struct.error") =>
        /\ io.size[1] * io.size[2] * 8 = PayloadLen
        /\ io.maxreq <= BUFFER_SIZE
        /\ io.to_receive <= PayloadLen - Len(io.buf)
        /\ io.buf \o io.inb = SubSeq(io.out, 9, Len(io.out)) \o After
        /\ io.pc = "_rec_matrix_recv" => Len(io.buf) < PayloadLen /\ io.to_receive > 0
        /\ io.pc = "done" => Len(io.buf) = PayloadLen /\ io.inb = After

\* a payload longer than one chunk has come in three deliveries or more
C22_Witness ==
    /\ Whole("matrix")
    /\ PayloadLen > BUFFER_SIZE
    /\ io.recvs >= 3
    /\ Len(io.buf) = PayloadLen

\* C23: a matrix is written as its row count, its column count and its
\* entries column by column; _rec_matrix on those bytes returns a matrix of the
\* same shape with the same entry at every row and column; a matrix with a
\* dimension 0 is written as the two counts alone and comes back as the empty
\* matrix.
C23_MatrixRoundTrip ==
    Whole("matrix") =>
        /\ io.out = pack_i(size(io.value)[1]) \o pack_i(size(io.value)[2])
                     \o ColumnBytes(io.value, 1)
        /\ size(io.value)[1] * size(io.value)[2] > 0 =>
              /\ size(io.result) = size(io.value)
              /\ \A i \in 1..size(io.value)[1], j \in 1..size(io.value)[2] :
                    io.result.rows[i][j] = io.value.rows[i][j]
        /\ size(io.value)[1] * size(io.value)[2] = 0 =>
              /\ Len(io.out) = 8
              /\ io.result = Mat(<<<<>>>>)
              /\ size(io.result)[1] * size(io.result)[2] = 0

\* a matrix of 2 rows and 3 columns has come back
C23_Witness ==
    /\ Whole("matrix")
    /\ io.value = MatOf(2, 3)
    /\ io.result = MatOf(2, 3)
    /\ io.value.rows[1][2] = -12 /\ io.value.rows[2][1] = -21

\* C24: a pose whose last row is not [0,0,0,1] only prints a warning:
\* _send_pose still writes exactly 16 doubles, 128 bytes with no header, column
\* by column, and _rec_pose on those bytes returns a 4x4 matrix with the
\* entries of the one sent.
C24_PoseRoundTrip ==
    (io.op = "pose" /\ ~isHomogeneous(io.value)) =>
        /\ io.printed # <<>> /\ io.printed[1] = MSG_NOT_HOMOGENEOUS
        /\ Len(io.out) = 128
        /\ io.out = ColumnBytes(io.value, 1)
        /\ Whole("pose") =>
              /\ size(io.result) = <<4, 4>>
              /\ io.result = io.value
              /\ io.inb = After

\* a pose with the last row [-1,2,3,4] has come back
C24_Witness ==
    /\ Whole("pose")
    /\ io.value.rows[4] = <<-1, 2, 3, 4>>
    /\ io.result.rows[4] = <<-1, 2, 3, 4>>
    /\ io.printed[1] = MSG_NOT_HOMOGENEOUS

----------------------------------------------------------------------------
(* The id of an Item *)

\* a step of a method changes the id of its Item only as Item.Delete returns,
\* its one status read and not raising
C28_IdStep ==
    (pc # "idle" /\ arg'.item # arg.item) =>
        /\ call = "Delete" /\ pc = "Delete_return"
        /\ h.statusReads = 1 /\ LastReply.st \in {0, 2}
        /\ arg'.item = 0
        /\ outcome'.kind = "return"

\* when Item.Delete has ended: the Item is not valid if it returned, and has
\* the id that was sent if it raised, on a fatal status or with no status read
C28_IdStates ==
    (call = "Delete" /\ pc = "idle" /\ Len(sent) = 2) =>
        /\ outcome.kind = "return" =>
              ~Valid(arg.item) /\ h.statusReads = 1 /\ LastReply.st \in {0, 2}
        /\ outcome.kind = "raise" =>
              /\ arg.item = sent[2].n
              /\ h.statusReads = 1 => LastReply.st \notin {0, 2}

\* C28: Item.Delete sets the id of the Item to 0, so that Valid() is False,
\* only after the status of 'Remove' has been read and did not raise; when the
\* status is fatal the call raises and the id is unchanged; no step of any
\* other Item operation changes the id.
C28_DeleteClearsId == []C28_IdStates /\ [][C28_IdStep]_vars

\* a valid Item has been deleted
C28_Witness ==
    /\ call = "Delete" /\ pc = "idle"
    /\ outcome.kind = "return"
    /\ Len(sent) = 2 /\ Valid(sent[2].n)
    /\ ~Valid(arg.item)

----------------------------------------------------------------------------
(* Arguments checked or rewritten before they are sent *)

\* a text with the placeholder in the place of every CR-LF and of every LF
\* that is left
RECURSIVE OneLine(_)
OneLine(text) ==
    IF text = <<>> THEN <<>>
    ELSE IF Head(text) = LF THEN BR \o OneLine(Tail(text))
    ELSE IF Len(text) >= 2 /\ text[1] = CR /\ text[2] = LF
    THEN BR \o OneLine(SubSeq(text, 3, Len(text)))
    ELSE <<Head(text)>> \o OneLine(Tail(text))

\* C27: RunCode, RunMessage and RunCodeCustom replace every CR-LF and every LF
\* of the text by the placeholder before they send it, so the text is one line
\* on the wire: the only LF written for it is the one that ends the line.
C27_TextIsOneLine ==
    (call \in {"RunCode", "RunMessage", "RunCodeCustom"} /\ sent # <<>>) =>
        /\ Len(sent) >= 3
        /\ sent[3].k = "line"
        /\ sent[3].s = OneLine(arg.code)
        /\ \A k \in 1..Len(sent[3].s) : sent[3].s[k] # LF
        /\ {k \in 1..Len(line_bytes(sent[3].s)) : line_bytes(sent[3].s)[k] = LF}
              = {Len(sent[3].s) + 1}

\* a code of a CR-LF and an LF has been sent as two placeholders
C27_Witness ==
    /\ call = "RunCode"
    /\ arg.code = <<CR, LF, LF>>
    /\ Len(sent) = 3
    /\ sent[3].s = BR \o BR

\* the two parallel lists of the call differ in length
ListsDiffer ==
    \/ call \in {"setPoses", "setPosesAbs"} /\ Len(arg.items) # Len(arg.poses)
    \/ call = "setJoints" /\ Len(arg.robot_item_list) # Len(arg.joints)

\* C29: when the two parallel lists of setPoses, setPosesAbs or setJoints
\* differ in length, the call raises before any byte is written to the socket.
C29_LengthsCheckedFirst ==
    ListsDiffer =>
        /\ sent = <<>> /\ srvIn = <<>>
        /\ pc \in {"setPoses", "setJoints", "idle"}
        /\ pc = "idle" =>
              /\ outcome.kind = "raise"
              /\ outcome.msg = IF call = "setJoints" THEN MSG_JOINTS ELSE MSG_POSES

\* setJoints with two robots and one list of joints has raised
C29_Witness ==
    /\ call = "setJoints"
    /\ Len(arg.robot_item_list) = 2 /\ Len(arg.joints) = 1
    /\ pc = "idle" /\ outcome.kind = "raise"
    /\ sent = <<>>

\* the colour has 3 or 4 values in a list
WellFormed(color) == color.type = "list" /\ Len(color.values) \in {3, 4}
\* a channel of the colour is outside the range [0,1]
OutOfRange(color) == \E k \in 1..Len(color.values) : color.values[k] < 0 \/ color.values[k] > 1

\* C30 as stated, for setColor: a colour that is not a list of 3 or 4 values
\* raises before the command name is written; a colour of 3 values is sent with
\* alpha 1 after them; a channel outside [0,1] prints the warning and the
\* command is sent all the same.
C30_Original ==
    (call = "setColor" /\ pc \notin {"_check_connection", "setColor_send"}) =>
        /\ (sent = <<>>) = (outcome.msg = MSG_COLOR /\ ~WellFormed(arg.tocolor))
        /\ sent # <<>> =>
              /\ sent[1] = _send_line("S_Color")
              /\ sent[3] = _send_int(4)
              /\ Len(sent) = 7
              /\ \A k \in 1..4 : sent[3 + k].n = arg.tocolor.values[k]
              /\ (h.statusReads = 0 /\ OutOfRange(arg.tocolor)) =>
                    stdout.msg = MSG_COLOR_RANGE

----------------------------------------------------------------------------
(* Queries repeated on one session: Item.Name and Item.Pose *)

\* the pose the station holds for an item
PoseOf(item) == Mat([Pose EXCEPT ![1][4] = 40 + item])

\* the caller asks for the name or the pose of a handle, again and again; the
\* calls that have ended are remembered
Query_Call ==
    /\ pc = "idle"
    /\ Len(h.prev) < MaxQueries - (IF call = "__init__" THEN 0 ELSE 1)
    /\ \E m \in {"Name", "Pose"} : \E i \in ItemIds :
          /\ call' = m
          /\ arg' = [NoArgs EXCEPT !.item = i]
          /\ stack' = <<m \o "_send">>
    /\ pc' = "_check_connection"
    /\ sent' = <<>>
    /\ h' = [NoHistory EXCEPT !.prev =
                IF call = "__init__" THEN <<>>
                ELSE Append(h.prev, [call |-> call, item |-> arg.item,
                                     outcome |-> outcome])]
    /\ outcome' = NoOutcome
    /\ stdout' = Nothing
    /\ fr' = NoFrame
    /\ ret' = 0
    /\ status' = 0
    /\ name' = <<>>
    /\ UNCHANGED <<io, heap, thr, RL, session, params, inb, srvIn, srv, livePorts>>

\* mutant: the pose is awaited under the timeout of a user action
Pose_send_settimeout ==
    /\ pc = "Pose_send"
    /\ send(<<_send_line("G_Hlocal"), _send_item(arg.item)>>, "Pose_rec_pose", <<>>)
    /\ RL' = [RL EXCEPT !.COM_timeout = USER_TIMEOUT]
    /\ UNCHANGED <<io, heap, thr, session, fr, params, call, arg, ret, status, name, inb, srv,
                   livePorts, h, stdout>>

\* Item.Pose: 'G_Hlocal', the item, then the pose and the status
Pose_send ==
    /\ pc = "Pose_send"
    /\ send(<<_send_line("G_Hlocal"), _send_item(arg.item)>>, "Pose_rec_pose", <<>>)
    /\ UNCHANGED <<io, heap, thr, RL, session, fr, params, call, arg, ret, status, name, inb, srv,
                   livePorts, h, stdout>>

\* pose = self.link._rec_pose()
Pose_rec_pose ==
    /\ pc = "Pose_rec_pose"
    /\ Len(inb) >= 128
    /\ arg' = [arg EXCEPT !.pose = _rec_pose(inb).pose]
    /\ inb' = _rec_pose(inb).rest
    /\ h' = [h EXCEPT !.reads = Append(@, Read("result"))]
    /\ pc' = "_check_status"
    /\ stack' = <<"Pose_return">>
    /\ UNCHANGED <<io, heap, thr, RL, session, fr, params, call, ret, status, name, srvIn, srv,
                   livePorts, sent, outcome, stdout>>

\* return pose
Pose_return ==
    /\ pc = "Pose_return"
    /\ Done(0, arg.pose.rows)
    /\ UNCHANGED <<io, heap, thr, RL, session, fr, params, call, arg, ret, status, name, inb, srvIn,
                   srv, livePorts, sent, h, stdout>>

\* the application answers a query with what the station holds for the
\* item, and a status
Query_Server ==
    /\ srv = "ready"
    /\ Len(srvIn) = 2
    /\ srvIn[1].s \in {"G_Name", "G_Hlocal"}
    /\ \E st \in StatusCodes : \E msg \in MsgsFor(st) :
          /\ inb' = inb \o (IF srvIn[1].s = "G_Name"
                            THEN line_bytes(NameOf(srvIn[2].n))
                            ELSE Bytes(_send_pose(PoseOf(srvIn[2].n)).writes))
                        \o status_bytes(st, msg)
          /\ h' = [h EXCEPT !.replies = Append(@, [st |-> st, msg |-> msg])]
    /\ srvIn' = <<>>
    /\ UNCHANGED <<io, heap, thr, RL, session, fr, params, pc, stack, call, arg, ret, status, name,
                   srv, livePorts, sent, outcome, stdout>>

Query_Next ==
    \/ Query_Call
    \/ _check_connection
    \/ _check_status_step
    \/ Name_send
    \/ Name_rec_line
    \/ Name_return
    \/ Pose_send
    \/ Pose_rec_pose
    \/ Pose_return
    \/ Query_Server

SpecQuery == Session_Init /\ [][Query_Next]_vars

----------------------------------------------------------------------------
(* The Item objects of two connections *)

\* mutant: the arguments after link are taken in the other order
Item__init__swapped(lnk, ptr_item, itemtype) ==
    [item |-> itemtype, link |-> lnk, type |-> ptr_item]

\* Item.__init__(link, ptr_item=0, itemtype=-1); link is an object, or 0 for
\* None
Item__init__(lnk, ptr_item, itemtype) ==
    [item |-> ptr_item, link |-> lnk, type |-> itemtype]

\* a new Item object, remembered with the place that made it and the
\* connection that was running then
New(it, by, o) ==
    /\ Len(heap.items) < MaxHandles
    /\ heap' = [heap EXCEPT !.actor = o,
                            !.items = Append(@, [obj |-> it, by |-> by, on |-> o])]

\* o is constructed and its socket is connected
Open(o) == Constructed(o) /\ getattr(heap, o, "COM").state = "open"

\* _rec_item of o, called by Item, ItemUserPick, ItemList and the other
\* commands that return a handle: the pointer and the type the application
\* sent
Handle__rec_item ==
    \E o \in Objs, it \in Pickable :
       /\ Open(o)
       /\ New(Item__init__(o, unpack_Q(pack_Q(it.item)), unpack_i(pack_i(it.type))),
              "_rec_item", o)
       /\ UNCHANGED <<link, thr, io>>

\* Robolink.ShowSequence: Item(self, 0)
Handle_ShowSequence ==
    \E o \in Objs :
       /\ Open(o)
       /\ New(Item__init__(o, 0, -1), "ShowSequence", o)
       /\ UNCHANGED <<link, thr, io>>

\* Robolink.ProgramStart with no robot: Item(None)
Handle_ProgramStart ==
    \E o \in Objs :
       /\ Open(o)
       /\ New(Item__init__(0, 0, -1), "ProgramStart", o)
       /\ UNCHANGED <<link, thr, io>>

\* Item.setRobot with no robot: Item(self.link)
Handle_setRobot ==
    \E i \in 1..Len(heap.items) :
       /\ heap.items[i].obj.link # 0
       /\ New(Item__init__(heap.items[i].obj.link, 0, -1), "setRobot",
              heap.items[i].obj.link)
       /\ UNCHANGED <<link, thr, io>>

\* Item.Delete whose status does not raise: self.item = 0
Handle_Delete ==
    \E i \in 1..Len(heap.items) :
       /\ heap.items[i].obj.link # 0
       /\ heap' = [heap EXCEPT !.actor = heap.items[i].obj.link,
                               !.items[i].obj.item = 0]
       /\ UNCHANGED <<link, thr, io>>

Handles_Next ==
    \/ Obj___init__
    \/ Handle__rec_item
    \/ Handle_ShowSequence
    \/ Handle_ProgramStart
    \/ Handle_setRobot
    \/ Handle_Delete

SpecHandles == Objects_Init /\ [][Handles_Next]_vars

----------------------------------------------------------------------------
(* A peer that closes or stalls while the client reads *)

\* one call of a query on the new session
Live_Call ==
    /\ call = "__init__"
    /\ CallOf({"Name", "Busy"})

\* _rec_line is waiting for the rest of a line: the name, or the message that
\* follows status 2 or 3
LineWait ==
    \/ pc = "Name_rec_line" /\ ~HasLine(inb)
    \/ /\ pc = "_check_status"
       /\ Len(inb) >= 4
       /\ _rec_int(inb).num \in {2, 3}
       /\ ~HasLine(_rec_int(inb).rest)

\* _rec_int is waiting for its four bytes
IntWait == pc \in {"Busy_rec_int", "_check_status"} /\ Len(inb) < 4

\* the application answers the query, or sends only the first k bytes of its
\* answer and then closes the connection or sends no more
Live_Server ==
    /\ srv = "ready"
    /\ Len(srvIn) = 2
    /\ srvIn[1].s \in {"G_Name", "IsBusy"}
    /\ \E st \in {0, 2, 3} : \E msg \in MsgsFor(st) :
          LET answer == (IF srvIn[1].s = "G_Name" THEN line_bytes(NameOf(srvIn[2].n))
                         ELSE pack_i(1))
                        \o status_bytes(st, msg)
          IN  \E k \in 0..Len(answer), after \in {"gone", "refused"} :
                 /\ inb' = SubSeq(answer, 1, k)
                 /\ srv' = IF k = Len(answer) THEN "ready" ELSE after
                 /\ k = Len(answer) => after = "gone"
                 /\ h' = [h EXCEPT !.replies = Append(@, [st |-> st, msg |-> msg])]
    /\ srvIn' = <<>>
    /\ UNCHANGED <<io, heap, thr, RL, session, fr, params, pc, stack, call, arg, ret, status, name,
                   livePorts, sent, outcome, stdout>>

\* recv blocks with nothing to read and the peer sends no more: the timeout
\* of the socket expires
Live_timeout ==
    /\ srv = "refused"
    /\ LineWait \/ (IntWait /\ inb = <<>>)
    /\ Raise("timeout", "timed out", <<>>)
    /\ UNCHANGED <<io, heap, thr, RL, session, fr, params, call, arg, ret, status, name, inb, srvIn,
                   srv, livePorts, sent, h, stdout>>

\* recv(4) returns fewer than four bytes, the ones that came before the peer
\* stopped, or none after it closed: struct.unpack raises
Live_short_read ==
    /\ IntWait
    /\ \/ srv = "gone"
       \/ srv = "refused" /\ inb # <<>>
    /\ Raise("struct.error", "unpack requires a buffer of 4 bytes", <<>>)
    /\ UNCHANGED <<io, heap, thr, RL, session, fr, params, call, arg, ret, status, name, inb, srvIn,
                   srv, livePorts, sent, h, stdout>>

\* the loop of _rec_line after the peer closed: recv(1) returns b'' at once,
\* '' is not LF, string + '' is string, and recv(1) is called again; the
\* passes are counted modulo 2
Live_rec_line_eof ==
    /\ srv = "gone"
    /\ LineWait
    /\ fr' = [fr EXCEPT !.eofs = 1 - @]
    /\ UNCHANGED <<io, heap, thr, RL, session, params, pc, stack, call, arg, ret, status, name,
                   inb, srvIn, srv, livePorts, sent, h, outcome, stdout>>

Live_Next ==
    \/ Live_Call
    \/ _check_connection
    \/ _check_status_step
    \/ Name_send
    \/ Name_rec_line
    \/ Name_return
    \/ Busy_send
    \/ Busy_rec_int
    \/ Busy_return
    \/ Live_Server
    \/ Live_timeout
    \/ Live_short_read
    \/ Live_rec_line_eof

\* the client runs whenever it can, and the peer does one of the things it
\* may do
SpecLive == Session_Init /\ [][Live_Next]_vars /\ WF_vars(Live_Next)

----------------------------------------------------------------------------
(* Connect and _set_connection_params called again on an object *)

\* the caller calls Connect(), or _set_connection_params with flags and a
\* timeout of its own (0: none given); the flags and the timeout the object
\* held before the call are remembered
Reconnect_Call ==
    /\ pc = "idle"
    /\ \/ /\ call' = "Connect"
          /\ pc' = "Connect"
          /\ UNCHANGED params
       \/ /\ call' = "_set_connection_params"
          /\ pc' = "_set_connection_params"
          /\ \E safe_mode \in {0, 1}, auto_update \in {0, 1},
                timeout \in {0, 2 * DEFAULT_TIMEOUT} :
                params' = [safe_mode |-> safe_mode, auto_update |-> auto_update,
                           timeout |-> timeout]
    /\ stack' = <<"Connect_done">>
    /\ arg' = NoArgs
    /\ sent' = <<>>
    /\ h' = [NoHistory EXCEPT !.prev = <<[SAFE_MODE |-> RL.SAFE_MODE,
                                          AUTO_UPDATE |-> RL.AUTO_UPDATE,
                                          TIMEOUT |-> RL.TIMEOUT]>>]
    /\ outcome' = NoOutcome
    /\ stdout' = Nothing
    /\ fr' = NoFrame
    /\ ret' = 0
    /\ status' = 0
    /\ name' = <<>>
    /\ UNCHANGED <<io, heap, thr, RL, session, inb, srvIn, srv, livePorts>>

\* the application answers 'CMD_START' on a session that is established
Server_restart ==
    /\ srv = "ready"
    /\ Len(srvIn) = 2
    /\ srvIn[1] = _send_line("CMD_START")
    /\ \E reply \in HandshakeReplies :
          /\ inb' = inb \o line_bytes(reply)
          /\ srv' = IF reply = READY THEN "ready" ELSE "refused"
          /\ h' = [h EXCEPT !.hsReply = reply]
    /\ srvIn' = <<>>
    /\ UNCHANGED <<io, heap, thr, RL, session, fr, params, pc, stack, call, arg, ret, status, name,
                   livePorts, sent, outcome, stdout>>

Reconnect_Next ==
    \/ Connect
    \/ Connect_pass
    \/ Connect_scan
    \/ Connect_after_scan
    \/ Connect_spawn
    \/ Connect_end
    \/ Connect_return
    \/ Connect_done
    \/ __init___return
    \/ Timeout
    \/ _set_connection_params
    \/ _set_connection_params_rec
    \/ Reconnect_Call
    \/ Server_handshake
    \/ Server_restart
    \/ App_exit

SpecReconnect == Init /\ [][Reconnect_Next]_vars

----------------------------------------------------------------------------
(* C31: the filtered item list *)

\* the call has ended, by a return or by an exception
Ended == pc = "idle" /\ outcome.kind # "none"

\* the reads of a list of n entries of kind k that were all made after the
\* two writes of the request: the count, the entries, the status
ListReads(n, k) ==
    <<[k |-> "count", at |-> 2]>> \o [i \in 1..n |-> [k |-> k, at |-> 2]]
    \o <<[k |-> "status", at |-> 2]>>

\* C31: ItemList with a type filter writes 'G_List_Items_Type' and the filter,
\* reads the count n, then n names, then the status, in this order and all
\* after the writes; when the status is 0 it returns the n names in the order
\* in which the application sent them.
C31_FilteredNameList ==
    (call = "ItemList" /\ arg.filter # None /\ arg.list_names) =>
        /\ pc \notin {"_check_connection", "ItemList_send"} =>
              sent = <<_send_line("G_List_Items_Type"), _send_int(arg.filter.item)>>
        /\ Ended =>
              /\ arg.count = Len(h.srvList)
              /\ h.reads = ListReads(arg.count, "name")
              /\ inb = <<>>
              /\ LastReply.st = 0 =>
                    /\ outcome.kind = "return"
                    /\ outcome.text = h.srvList
                    /\ Len(outcome.text) = arg.count

\* three names, two of them different, were returned in their order
C31_Witness ==
    /\ call = "ItemList" /\ arg.filter # None /\ arg.list_names
    /\ Ended /\ LastReply.st = 0
    /\ outcome.kind = "return"
    /\ outcome.text = <<<<65>>, <<66>>, <<>>>>

----------------------------------------------------------------------------
(* C32: Name() and Pose() are read-only *)

\* the value a query of the item must return: what the station holds
Held(m, item) == IF m = "Name" THEN NameOf(item) ELSE PoseOf(item).rows

\* the call that has just ended returned what every earlier call of the same
\* query on the same handle returned, which is what the station holds
C32_SameValue ==
    (call \in {"Name", "Pose"} /\ Ended /\ outcome.kind = "return") =>
        /\ outcome.text = Held(call, arg.item)
        /\ \A k \in 1..Len(h.prev) :
              (/\ h.prev[k].call = call
               /\ h.prev[k].item = arg.item
               /\ h.prev[k].outcome.kind = "return")
              => h.prev[k].outcome = outcome

\* no step changes the connection, and no step of a running query changes
\* the handle it was called on
C32_Frame ==
    /\ RL' = RL
    /\ session' = session
    /\ params' = params
    /\ pc # "idle" => (arg'.item = arg.item /\ arg'.itemtype = arg.itemtype)

\* C32: Name() and Pose() are read-only round trips: a call returns what the
\* earlier calls on the same handle returned while the station is unchanged,
\* and no step of a call changes the id or the type of the handle, the
\* socket, PORT, TIMEOUT or the session flags of the connection.
C32_ReadOnlyQueries == []C32_SameValue /\ [][C32_Frame]_vars

\* a second Pose() of the same handle has returned, after a first one that
\* returned
C32_Witness ==
    /\ call = "Pose" /\ Ended /\ outcome.kind = "return"
    /\ Len(h.prev) = 1
    /\ h.prev[1].call = "Pose" /\ h.prev[1].item = arg.item
    /\ h.prev[1].outcome.kind = "return"
    /\ arg.item = 1

----------------------------------------------------------------------------
(* C33: where handles come from *)

\* an Item with an id was read from the application by the connection it is
\* bound to, and an Item made anywhere else has no id
C33_Origin ==
    \A i \in 1..Len(heap.items) :
       LET it == heap.items[i]
       IN  /\ it.obj.item # 0 => (it.by = "_rec_item" /\ it.obj.link = it.on)
           /\ it.by # "_rec_item" => it.obj.item = 0

\* the Items stay, each with the link it was made with
C33_LinkKept ==
    /\ Len(heap.items') >= Len(heap.items)
    /\ \A i \in 1..Len(heap.items) : heap.items'[i].obj.link = heap.items[i].obj.link

\* C33: every Item with a non-zero id was made by _rec_item from a handle the
\* application sent and is bound to the Robolink that received it; an Item the
\* library makes anywhere else (ShowSequence, ProgramStart, setRobot) has id 0;
\* the link of an Item is never assigned again.
C33_HandlesFromServer == []C33_Origin /\ [][C33_LinkKept]_vars

\* two connections hold a handle with an id each
C33_Witness ==
    /\ Len(heap.items) = 2
    /\ heap.items[1].obj.item # 0 /\ heap.items[1].obj.link = 1
    /\ heap.items[2].obj.item # 0 /\ heap.items[2].obj.link = 2

----------------------------------------------------------------------------
(* C34: every call ends *)

\* C34: every command call eventually returns or raises, also when the peer
\* closes the connection or stops sending in the middle of a line.
C34_Original == (pc # "idle") ~> (pc = "idle")

----------------------------------------------------------------------------
(* C35: RunProgram that waits *)

\* the program was looked up and its handle is not null
ProgramFound ==
    /\ call = "RunProgram" /\ arg.wait_for_finished
    /\ Ended
    /\ h.statusReads >= 1
    /\ h.srvItem.item # 0
    /\ ~(h.statusReads = 1 /\ LastReply.st \notin {0, 2})

\* C35: RunProgram(name, wait_for_finished=True) looks the program up by name
\* and type, raises 'Invalid program' with nothing started when the handle is
\* null, and otherwise starts the program and returns after a busy poll
\* returned 0.
C35_Original ==
    /\ (call = "RunProgram" /\ arg.wait_for_finished /\ sent # <<>>) =>
          SubSeq(sent, 1, 3) = <<_send_line("G_Item2"), _send_line(arg.code),
                                 _send_int(ITEM_TYPE_PROGRAM)>>
    /\ (call = "RunProgram" /\ arg.wait_for_finished /\ Ended
        /\ h.statusReads = 1 /\ LastReply.st \in {0, 2} /\ h.srvItem.item = 0) =>
          /\ outcome.kind = "raise" /\ outcome.msg = MSG_INVALID_PROGRAM
          /\ Len(sent) = 3
    /\ ProgramFound =>
          /\ outcome.kind = "return"
          /\ \E i \in 1..Len(sent) : sent[i] = _send_line("RunProg")
          /\ \E i \in 1..Len(sent) : sent[i] = _send_line("IsBusy")

----------------------------------------------------------------------------
(* C36: the setters of one speed or acceleration *)

\* the place of each value in the array of 'S_Speed4': linear speed, joint
\* speed, linear acceleration, joint acceleration
SlotOf ==
    [m \in {"setAcceleration", "setSpeedJoints", "setAccelerationJoints"} |->
        CASE m = "setSpeedJoints" -> 2
          [] m = "setAcceleration" -> 3
          [] m = "setAccelerationJoints" -> 4]

\* C36: setAcceleration, setSpeedJoints and setAccelerationJoints each send
\* their value in their own place of the array of 'S_Speed4' and -1 in the
\* three other places.
C36_Original ==
    (call \in DOMAIN SlotOf /\ Len(sent) > 0) =>
        sent = <<_send_line("S_Speed4"), _send_item(arg.item)>>
               \o _send_array(List([k \in 1..4 |-> IF k = SlotOf[call] THEN arg.value
                                                   ELSE -1]))

----------------------------------------------------------------------------
(* C37: WaitMove before every move *)

\* the place of the command line of the move in the writes of the call, 0
\* when it is not written
MoveAt == IF call = "MoveJ" THEN CmdAt("MoveX") ELSE CmdAt("MoveC")

\* the call ended in the WaitMove that comes before the move: on one of its
\* two statuses, or on a read that found the connection closed
RaisedBeforeMove ==
    /\ Ended /\ outcome.kind = "raise"
    /\ \/ h.statusReads < 2
       \/ h.statusReads = 2 /\ outcome.exc = "Exception"

\* C37: every move, blocking or not, first runs a whole WaitMove of the robot
\* ('WaitMove', the robot, two statuses read that do not raise) and only then
\* writes its command line; when that WaitMove raises, nothing of the move is
\* written.
C37_WaitBeforeMove ==
    call \in {"MoveJ", "MoveC"} =>
        /\ sent # <<>> => sent[1] = _send_line("WaitMove")
        /\ MoveAt > 0 =>
              /\ MoveAt = 3
              /\ sent[2] = _send_item(arg.item)
              /\ Len(h.reads) >= 2
              /\ h.reads[1] = [k |-> "status", at |-> 2]
              /\ h.reads[2] = [k |-> "status", at |-> 2]
        /\ RaisedBeforeMove => (MoveAt = 0 /\ Len(sent) <= 2)

\* a move that does not block has returned: its command line was written
\* after the WaitMove
C37_Witness ==
    /\ call = "MoveC" /\ ~arg.blocking
    /\ Ended /\ outcome.kind = "return"
    /\ MoveAt = 3
    /\ h.statusReads = 3

----------------------------------------------------------------------------
(* C38: Connect runs the handshake with the default flags *)

\* Connect has connected its socket and written the handshake
Handshaken == call \in {"__init__", "Connect"} /\ sent # <<>>

\* no step of Connect changes TIMEOUT
C38_TimeoutKept ==
    (call \in {"__init__", "Connect"} /\ pc # "idle") => RL'.TIMEOUT = RL.TIMEOUT

\* the handshake of Connect is written with the flags 1 and 0, which the
\* object then holds
C38_Defaults ==
    Handshaken =>
        /\ sent = <<_send_line("CMD_START"), _send_line("1 0")>>
        /\ RL.SAFE_MODE = 1
        /\ RL.AUTO_UPDATE = 0

----------------------------------------------------------------------------
(* C39: the stream and the fragments of the transport *)

\* C39: whatever the sizes in which the transport delivers the bytes of an
\* answer, a receive of an int, a handle, a pose or an array of doubles
\* completes and takes from the stream exactly the bytes of the answer.
C39_Original ==
    (io.op \in {"int", "item", "pose", "array"} /\ io.pc = "done") =>
        /\ io.ended = "returned"
        /\ io.inb = After

====
